---- MODULE Spec2Model ----
(***************************************************************************)
(* Model of the playmaster execution orchestration engine:                 *)
(*   - the hook pipeline of CodeRun::execute (src/src/code_run/run.rs),    *)
(*   - the coordinator of main (src/src/main.rs) with its running flag     *)
(*     (src/src/utils/execution.rs),                                       *)
(*   - the test-output parser RunFlutter::process_lines and the return of  *)
(*     RunFlutter::run (src/src/code_run/run_flutter.rs),                  *)
(*   - the process registry of CommandUtils (src/src/utils/command.rs),    *)
(*   - the reader thread of RemoteInfo::exec_remote_stream and the         *)
(*     synchronous RemoteInfo::exec (src/src/models/app_state.rs),         *)
(*   - the input bridge RunFlutter::process_user_input and the prompts of  *)
(*     OsUtils::ask (src/src/utils/os.rs),                                 *)
(*   - the pipes of the local test-driver child under                      *)
(*     RunFlutter::process_output.                                         *)
(***************************************************************************)
EXTENDS Integers, Sequences, FiniteSets, TLC

\* ------------------------------------------------------------------------
\* Bounds
\* ------------------------------------------------------------------------

\* longest configured hook list
MaxHooks == 3

\* longest generated line sequence
MaxLines == 3

\* ------------------------------------------------------------------------
\* Hook pipeline: state
\* ------------------------------------------------------------------------

VARIABLES
    hooks,          \* CodeRun.hooks: sequence of [hook_type, continue_on_error]
    pc,             \* position of the worker inside CodeRun::execute
    phases,         \* the phase list the current for-loop iterates over
    phase,          \* index of the current phase in phases
    idx,            \* index of the next hook in hooks_to_run
    arg_has_error,  \* the has_error argument of the running run_hooks_of_type
    has_error,      \* local has_error of execute
    IS_RUNNING,     \* the process-wide running flag
    res,            \* the result execute returns
    results_error,  \* Results.error
    trace,          \* history: hook runs, test step, terminate_all calls
    chan,           \* the mpsc channel of main
    signal_sent,    \* the signal thread has forwarded a signal
    main_pc,        \* position of main
    sent,           \* history: every message sent on the channel, in order
    outcome,        \* history: the messages main has matched on, in order
    input,          \* the lines the test driver writes (entries of LineTable)
    next_line,      \* position of the line iterator in input
    parser,         \* the locals of process_lines
    results,        \* Results: total, times and full log
    ppc,            \* position inside process_lines
    pres,           \* the result of process_lines
    target,         \* the execution target of RunFlutter::run
    run_res,        \* the result of RunFlutter::run
    finished_read,  \* history: the Results a Finished hook has read
    RUNNING_CMDS,         \* the registry of local children
    RUNNING_REMOTE_CMDS,  \* the registry of remote commands
    lock_holder,    \* who holds the mutex of each registry
    tpc,            \* position of each thread inside terminate_all_cmds
    calls,          \* terminate_all_cmds calls: caller, registries found, result
    spawned,        \* number of commands started so far
    alive,          \* the started local children that still run
    kills,          \* history: Child::kill calls, in order
    remote_kills,   \* history: pkill commands issued, with their outcome
    wpc,            \* position of the worker that uses the registry
    hook_cmds,      \* history: the commands asynchronous custom hooks started
    bytes,          \* the bytes the remote channel delivers
    read_pos,       \* number of bytes channel.read has returned so far
    buffer,         \* the reader thread's buffer
    tx,             \* the lines sent and not yet received
    lines_out,      \* history: the lines RemoteLineIterator has yielded
    rpc,            \* position of the reader thread
    rx_dropped,     \* the caller has dropped the RemoteLineIterator
    refused,        \* history: the lines sent after the receiver was dropped
    ended,          \* RemoteLineIterator::next has returned None
    breq,           \* the environment of one bridge call: provider, outcomes
    bpc,            \* position inside process_user_input
    user_input,     \* the local user_input
    dbus_cmds,      \* history: the continuation commands executed
    bres,           \* the result of process_user_input
    xin,            \* one execute: target, fault, what the command writes, exit
    xpc,            \* position inside run_command_str / exec
    xout_pos,       \* bytes of the command's stdout read so far
    xerr_pos,       \* bytes of the command's stderr read so far
    xstdout,        \* the local stdout of exec
    xstderr,        \* the local stderr of exec
    xres,           \* the result of run_command_str
    child_plan,     \* the writes of the test-driver child: "out" or "err", in order
    child_pos,      \* number of writes the child has completed
    child_pc,       \* the child runs or has exited
    out_pipe,       \* units in the child's stdout pipe
    err_pipe,       \* units in the child's stderr pipe
    stdout_open,    \* the parent holds the read end of the stdout pipe
    lpc,            \* position of the parent inside process_output
    asks,           \* the calls of OsUtils::ask so far, each with its reader thread
    stdin_buf       \* the lines typed and not yet read from stdin

pipeVars == <<hooks, pc, phases, phase, idx, arg_has_error, has_error,
              IS_RUNNING, res, results_error, trace, chan, signal_sent, main_pc,
              sent, outcome>>

parserVars == <<input, next_line, parser, results, ppc, pres, target, run_res,
                finished_read>>

registryVars == <<RUNNING_CMDS, RUNNING_REMOTE_CMDS, lock_holder, tpc, calls,
                  spawned, alive, kills, remote_kills, wpc, hook_cmds>>

streamVars == <<bytes, read_pos, buffer, tx, lines_out, rpc, rx_dropped,
                refused, ended>>

bridgeVars == <<breq, bpc, user_input, dbus_cmds, bres>>

execVars == <<xin, xpc, xout_pos, xerr_pos, xstdout, xstderr, xres>>

localVars == <<child_plan, child_pos, child_pc, out_pipe, err_pipe,
               stdout_open, lpc>>

askVars == <<asks, stdin_buf>>

HookTypes == {"Connect", "VerifySystem", "PrepareSystem", "Finished"}

HookRec == [hook_type : HookTypes, continue_on_error : BOOLEAN]

pre_hooks == <<"Connect", "VerifySystem", "PrepareSystem">>

post_hooks == <<"Finished">>

HookLists == UNION {[1..n -> HookRec] : n \in 0..MaxHooks}

RECURSIVE IndicesOfType(_, _, _)
IndicesOfType(hs, hook_type, i) ==
    IF i > Len(hs) THEN <<>>
    ELSE IF hs[i].hook_type = hook_type
         THEN <<i>> \o IndicesOfType(hs, hook_type, i + 1)
         ELSE IndicesOfType(hs, hook_type, i + 1)

\* every hook is taken whatever its type
hooks_of_type_unfiltered(hook_type) == [i \in 1..Len(hooks) |-> i]

\* HookListExt::hooks_of_type: the hooks of that type, in list order
\* (as indices into hooks)
hooks_of_type(hook_type) == IndicesOfType(hooks, hook_type, 1)

\* every hook of the phase runs, error or not
ShouldRun_always(hook, has_err) == TRUE

\* the guard of run_hooks_of_type's loop body
ShouldRun(hook, has_err) == hook.continue_on_error \/ ~has_err

\* only a non-tolerant hook's error leaves the loop
HookErrorPropagates_tolerant(hook) == ~hook.continue_on_error

\* `hook.run(ctx)?`: an error of any hook leaves run_hooks_of_type at once
HookErrorPropagates(hook) == TRUE

\* ExecutionUtils::is_running
is_running == IS_RUNNING

\* HookContext::add_results_error
add_results_error(errs, e) == Append(errs, e)

\* run.rs 122-125: the phase-qualified message of a failed pre-hook phase
PreHookFailure(errs, hook_type) ==
    add_results_error(errs, [kind |-> "Pre-hook error", phase |-> hook_type])

\* the failure is logged but not recorded
PostHookFailure_unrecorded(errs, hook_type) == errs

\* run.rs 148-151 (and 103-105): the message of a failed post-hook phase
PostHookFailure(errs, hook_type) ==
    add_results_error(errs, [kind |-> "Post-hook", phase |-> hook_type])

HookEntry(h, ok) == [kind |-> "hook", hook |-> h, ok |-> ok]
TestsEntry == [kind |-> "tests", hook |-> 0, ok |-> TRUE]
TerminateEntry(who) == [kind |-> "terminate_all", hook |-> 0, ok |-> TRUE, by |-> who]

Alive == main_pc # "exited"

PipeInit ==
    /\ hooks \in HookLists
    /\ pc = "load"
    /\ phases = <<>>
    /\ phase = 1
    /\ idx = 1
    /\ arg_has_error = FALSE
    /\ has_error = FALSE
    /\ IS_RUNNING = FALSE
    /\ res = "none"
    /\ results_error = <<>>
    /\ trace = <<>>
    /\ chan = <<>>
    /\ signal_sent = FALSE
    /\ main_pc = "recv"
    /\ sent = <<>>
    /\ outcome = <<>>

\* the pipeline at rest, for the parser's own specification
PipeIdle ==
    /\ PipeInit
    /\ hooks = <<>>

\* ------------------------------------------------------------------------
\* Hook pipeline: CodeRun::execute, one step per hook
\* ------------------------------------------------------------------------

hooks_to_run == hooks_of_type(phases[phase])

AfterLoop(p) ==
    CASE p = "pre" -> "tests"
      [] p = "post" -> "term2"
      [] p = "load_post" -> "ret"

\* the for-loop over the phase list moves on (or is left, by break or at
\* its end); he is the has_error handed to the next run_hooks_of_type
Advance(he, brk) ==
    IF brk \/ phase = Len(phases)
    THEN /\ pc' = AfterLoop(pc)
         /\ phases' = <<>>
         /\ phase' = 1
         /\ idx' = 1
         /\ arg_has_error' = he
    ELSE /\ pc' = pc
         /\ phases' = phases
         /\ phase' = phase + 1
         /\ idx' = 1
         /\ arg_has_error' = IF pc = "load_post" THEN TRUE ELSE he

\* FeatureTest::all_from_curr_dir and the Err arm of its match
LoadFeatures ==
    /\ Alive
    /\ pc = "load"
    /\ \E ok \in BOOLEAN :
          IF ok
          THEN /\ pc' = "pre"
               /\ phases' = pre_hooks
               /\ arg_has_error' = has_error
               /\ UNCHANGED <<res, results_error>>
          ELSE /\ pc' = "load_post"
               /\ phases' = <<"Finished">>
               /\ arg_has_error' = TRUE
               /\ res' = "err_load"
               /\ results_error' =
                     add_results_error(results_error,
                                       [kind |-> "load", phase |-> "none"])
    /\ phase' = 1
    /\ idx' = 1
    /\ UNCHANGED <<hooks, has_error, IS_RUNNING, trace, chan, signal_sent, main_pc>>
    /\ UNCHANGED <<sent, outcome>>
    /\ UNCHANGED <<parserVars, registryVars, streamVars, bridgeVars,
                   execVars, localVars, askVars>>

\* the handler of a failed run_hooks_of_type call in execute
PhaseFailed ==
    CASE pc = "pre" ->
            /\ has_error' = TRUE
            /\ results_error' = PreHookFailure(results_error, phases[phase])
            /\ Advance(TRUE, ~is_running)
      [] pc = "post" ->
            /\ has_error' = TRUE
            /\ results_error' = PostHookFailure(results_error, phases[phase])
            /\ Advance(TRUE, FALSE)
      [] pc = "load_post" ->
            /\ has_error' = has_error
            /\ results_error' = PostHookFailure(results_error, phases[phase])
            /\ Advance(TRUE, FALSE)

\* one iteration of the loop of run_hooks_of_type
HookStep ==
    /\ Alive
    /\ pc \in {"pre", "post", "load_post"}
    /\ idx <= Len(hooks_to_run)
    /\ LET h == hooks_to_run[idx] IN
          IF ShouldRun(hooks[h], arg_has_error)
          THEN \E ok \in BOOLEAN :
                  /\ trace' = Append(trace, HookEntry(h, ok))
                  /\ IF ok \/ ~HookErrorPropagates(hooks[h])
                     THEN /\ idx' = idx + 1
                          /\ UNCHANGED <<pc, phases, phase, arg_has_error,
                                         has_error, results_error>>
                     ELSE PhaseFailed
          ELSE /\ idx' = idx + 1
               /\ UNCHANGED <<pc, phases, phase, arg_has_error, has_error,
                              results_error, trace>>
    /\ UNCHANGED <<hooks, IS_RUNNING, res, chan, signal_sent, main_pc>>
    /\ UNCHANGED <<sent, outcome>>
    /\ UNCHANGED <<parserVars, registryVars, streamVars, bridgeVars,
                   execVars, localVars, askVars>>

\* run_hooks_of_type returns Ok(())
PhaseOk ==
    /\ Alive
    /\ pc \in {"pre", "post", "load_post"}
    /\ idx > Len(hooks_to_run)
    /\ Advance(has_error, FALSE)
    /\ UNCHANGED <<hooks, has_error, IS_RUNNING, res, results_error, trace,
                   chan, signal_sent, main_pc>>
    /\ UNCHANGED <<sent, outcome>>
    /\ UNCHANGED <<parserVars, registryVars, streamVars, bridgeVars,
                   execVars, localVars, askVars>>

\* run.rs 133-137: the test step, or its replacement error
RunTests ==
    /\ Alive
    /\ pc = "tests"
    /\ IF ~has_error /\ is_running
       THEN /\ \E r \in {"ok", "err_tests"} : res' = r
            /\ trace' = Append(trace, TestsEntry)
       ELSE /\ res' = "err_prehook"
            /\ trace' = trace
    /\ pc' = "term1"
    /\ UNCHANGED <<hooks, phases, phase, idx, arg_has_error, has_error,
                   IS_RUNNING, results_error, chan, signal_sent, main_pc>>
    /\ UNCHANGED <<sent, outcome>>
    /\ UNCHANGED <<parserVars, registryVars, streamVars, bridgeVars,
                   execVars, localVars, askVars>>

\* run.rs 141: terminate_all_cmds before the post-hooks
TerminateBeforePost ==
    /\ Alive
    /\ pc = "term1"
    /\ trace' = Append(trace, TerminateEntry("worker"))
    /\ pc' = "post"
    /\ phases' = post_hooks
    /\ phase' = 1
    /\ idx' = 1
    /\ arg_has_error' = has_error
    /\ UNCHANGED <<hooks, has_error, IS_RUNNING, res, results_error, chan,
                   signal_sent, main_pc>>
    /\ UNCHANGED <<sent, outcome>>
    /\ UNCHANGED <<parserVars, registryVars, streamVars, bridgeVars,
                   execVars, localVars, askVars>>

\* run.rs 155: terminate_all_cmds after the post-hooks
TerminateAfterPost ==
    /\ Alive
    /\ pc = "term2"
    /\ trace' = Append(trace, TerminateEntry("worker"))
    /\ pc' = "ret"
    /\ UNCHANGED <<hooks, phases, phase, idx, arg_has_error, has_error,
                   IS_RUNNING, res, results_error, chan, signal_sent, main_pc>>
    /\ UNCHANGED <<sent, outcome>>
    /\ UNCHANGED <<parserVars, registryVars, streamVars, bridgeVars,
                   execVars, localVars, askVars>>

\* Sender::send: the message joins the queue
send(ch, m) == Append(ch, m)

\* the newest queued message is handed out
recv_newest(ch) == ch[Len(ch)]

\* Receiver::recv on a non-empty queue: the oldest queued message
recv(ch) == Head(ch)

\* the queue after recv has taken its message
Remaining(ch) == Tail(ch)

\* main.rs 68-76: the message the worker sends for the result of
\* process_command
WorkerMessage(r) == IF r = "ok" THEN "done" ELSE "error"

\* execute returns res; the worker reports it on the channel
WorkerReport ==
    /\ Alive
    /\ pc = "ret"
    /\ chan' = send(chan, WorkerMessage(res))
    /\ sent' = Append(sent, WorkerMessage(res))
    /\ pc' = "done"
    /\ UNCHANGED <<hooks, phases, phase, idx, arg_has_error, has_error,
                   IS_RUNNING, res, results_error, trace, signal_sent, main_pc>>
    /\ UNCHANGED outcome
    /\ UNCHANGED <<parserVars, registryVars, streamVars, bridgeVars,
                   execVars, localVars, askVars>>

\* the signal thread forwards SIGINT or SIGTERM and ends
Signal ==
    /\ Alive
    /\ ~signal_sent
    /\ signal_sent' = TRUE
    /\ chan' = send(chan, "signal")
    /\ sent' = Append(sent, "signal")
    /\ UNCHANGED <<hooks, pc, phases, phase, idx, arg_has_error, has_error,
                   IS_RUNNING, res, results_error, trace, main_pc>>
    /\ UNCHANGED outcome
    /\ UNCHANGED <<parserVars, registryVars, streamVars, bridgeVars,
                   execVars, localVars, askVars>>

\* rx.recv() of main: the first message decides the arm
MainRecv ==
    /\ main_pc = "recv"
    /\ chan # <<>>
    /\ chan' = Remaining(chan)
    /\ outcome' = Append(outcome, recv(chan))
    /\ main_pc' = IF recv(chan) = "signal" THEN "set_running" ELSE "exited"
    /\ UNCHANGED <<hooks, pc, phases, phase, idx, arg_has_error, has_error,
                   IS_RUNNING, res, results_error, trace, signal_sent>>
    /\ UNCHANGED sent
    /\ UNCHANGED <<parserVars, registryVars, streamVars, bridgeVars,
                   execVars, localVars, askVars>>

\* ExecutionUtils::set_running(false) in the signal arm
MainSetRunning ==
    /\ main_pc = "set_running"
    /\ IS_RUNNING' = FALSE
    /\ main_pc' = "terminate"
    /\ UNCHANGED <<hooks, pc, phases, phase, idx, arg_has_error, has_error,
                   res, results_error, trace, chan, signal_sent>>
    /\ UNCHANGED <<sent, outcome>>
    /\ UNCHANGED <<parserVars, registryVars, streamVars, bridgeVars,
                   execVars, localVars, askVars>>

\* terminate_all_cmds("") in the signal arm, then main returns
MainTerminate ==
    /\ main_pc = "terminate"
    /\ trace' = Append(trace, TerminateEntry("main"))
    /\ main_pc' = "exited"
    /\ UNCHANGED <<hooks, pc, phases, phase, idx, arg_has_error, has_error,
                   IS_RUNNING, res, results_error, chan, signal_sent>>
    /\ UNCHANGED <<sent, outcome>>
    /\ UNCHANGED <<parserVars, registryVars, streamVars, bridgeVars,
                   execVars, localVars, askVars>>

\* ------------------------------------------------------------------------
\* Strings: a string is a sequence of one-character strings
\* ------------------------------------------------------------------------

IsWhitespace(c) == c \in {" ", "\t"}

Digits == <<"0", "1", "2", "3", "4", "5", "6", "7", "8", "9">>

IsDigit(c) == \E d \in 1..10 : Digits[d] = c

DigitValue(c) == (CHOOSE d \in 1..10 : Digits[d] = c) - 1

\* p occurs in s at position i
MatchAt(s, i, p) ==
    /\ i + Len(p) - 1 <= Len(s)
    /\ \A k \in 1..Len(p) : s[i + k - 1] = p[k]

\* str::starts_with
StartsWith(s, p) == MatchAt(s, 1, p)

\* str::contains
Contains(s, p) == \E i \in 1..(Len(s) - Len(p) + 1) : MatchAt(s, i, p)

\* the position of the first occurrence of character c in s, or 0
IndexOf(s, c) ==
    IF \E i \in 1..Len(s) : s[i] = c
    THEN CHOOSE i \in 1..Len(s) : s[i] = c /\ \A j \in 1..(i - 1) : s[j] # c
    ELSE 0

\* str::trim
Trim(s) ==
    IF \A i \in 1..Len(s) : IsWhitespace(s[i]) THEN <<>>
    ELSE LET a == CHOOSE i \in 1..Len(s) :
                     ~IsWhitespace(s[i]) /\ \A j \in 1..(i - 1) : IsWhitespace(s[j])
             b == CHOOSE i \in 1..Len(s) :
                     ~IsWhitespace(s[i]) /\ \A j \in (i + 1)..Len(s) : IsWhitespace(s[j])
         IN SubSeq(s, a, b)

\* s.strip_prefix(p).unwrap_or(s)
StripPrefixOr(s, p) ==
    IF StartsWith(s, p) THEN SubSeq(s, Len(p) + 1, Len(s)) ELSE s

\* str::split_once(c) and str::splitn(2, c): <<>> when c does not occur,
\* else <<before, after>>
SplitOnce(s, c) ==
    LET i == IndexOf(s, c) IN
    IF i = 0 THEN <<>> ELSE <<SubSeq(s, 1, i - 1), SubSeq(s, i + 1, Len(s))>>

\* str::split_whitespace
RECURSIVE SplitWhitespace(_)
SplitWhitespace(s) ==
    LET t == Trim(s) IN
    IF t = <<>> THEN <<>>
    ELSE IF \E i \in 1..Len(t) : IsWhitespace(t[i])
         THEN LET i == CHOOSE i \in 1..Len(t) :
                           IsWhitespace(t[i]) /\ \A j \in 1..(i - 1) : ~IsWhitespace(t[j])
              IN <<SubSeq(t, 1, i - 1)>> \o SplitWhitespace(SubSeq(t, i + 1, Len(t)))
         ELSE <<t>>

RECURSIVE DecimalValue(_)
DecimalValue(ds) ==
    IF ds = <<>> THEN 0
    ELSE 10 * DecimalValue(SubSeq(ds, 1, Len(ds) - 1)) + DigitValue(ds[Len(ds)])

I16Min == -32768
I16Max == 32767

\* s.parse::<i16>(): <<>> for an error, else <<value>>
ParseI16(s) ==
    LET signed == s # <<>> /\ s[1] \in {"+", "-"}
        ds == IF signed THEN Tail(s) ELSE s
        v == IF signed /\ s[1] = "-" THEN 0 - DecimalValue(ds) ELSE DecimalValue(ds)
    IN IF ds = <<>> \/ \E i \in 1..Len(ds) : ~IsDigit(ds[i]) THEN <<>>
       ELSE IF v < I16Min \/ v > I16Max THEN <<>>
       ELSE <<v>>

\* i16::abs with the wrapping of a release build
I16Abs(v) == IF v = I16Min THEN I16Min ELSE IF v < 0 THEN 0 - v ELSE v

\* s.parse::<i16>().unwrap_or(0).abs()
ParseCount(s) == I16Abs(IF ParseI16(s) = <<>> THEN 0 ELSE ParseI16(s)[1])

SomeTestsFailed ==
    <<"S", "o", "m", "e", " ", "t", "e", "s", "t", "s", " ", "f", "a",
      "i", "l", "e", "d">>

AllTestsPassed ==
    <<"A", "l", "l", " ", "t", "e", "s", "t", "s", " ", "p", "a", "s",
      "s", "e", "d">>

VMServiceFlutterDriver ==
    <<"V", "M", "S", "e", "r", "v", "i", "c", "e", "F", "l", "u", "t",
      "t", "e", "r", "D", "r", "i", "v", "e", "r">>

FlutterPrefix ==
    <<"f", "l", "u", "t", "t", "e", "r", ":">>

ErrorTag ==
    <<"[", "E", "]">>

\* CONTINUE_REGEX up to its capture group; "." matches any character
ContinueHead ==
    <<"W", "a", "i", "t", "i", "n", "g", " ", "f", "o", "r", " ", "D",
      "B", "u", "s", " ", "m", "e", "t", "h", "o", "d", " ", "c", "a",
      "l", "l", " ", "o", "n", "e", ".", "p", "l", "a", "y", "m", "a",
      "s", "t", "e", "r", ".", "E", "2", "E", ".", "C", "o", "n", "t",
      "i", "n", "u", "e", "(">>

\* ------------------------------------------------------------------------
\* Output parser: input lines
\* ------------------------------------------------------------------------

\* the five lines of the round-trip sample
SampleLine1 ==
    <<"0", "0", ":", "0", "1", " ", "+", "0", ":", " ", "S", "e", "t",
      "u", "p">>

SampleLine2 ==
    <<"0", "0", ":", "0", "2", " ", "+", "0", " ", "-", "0", ":", " ",
      "F", "e", "a", "t", "u", "r", "e", " ", "-", " ", "C", "a", "s",
      "e", " ", "A">>

SampleLine3 ==
    <<"0", "0", ":", "0", "5", " ", "+", "1", " ", "-", "0", ":", " ",
      "F", "e", "a", "t", "u", "r", "e", " ", "-", " ", "C", "a", "s",
      "e", " ", "A">>

SampleLine4 ==
    <<"0", "0", ":", "0", "6", " ", "+", "1", " ", "-", "0", ":", " ",
      "F", "e", "a", "t", "u", "r", "e", " ", "-", " ", "C", "a", "s",
      "e", " ", "B">>

SampleLine5 ==
    <<"0", "0", ":", "0", "9", " ", "+", "1", " ", "-", "1", ":", " ",
      "F", "e", "a", "t", "u", "r", "e", " ", "-", " ", "C", "a", "s",
      "e", " ", "B">>

NameSetup ==
    <<"S", "e", "t", "u", "p">>

NameCaseA ==
    <<"F", "e", "a", "t", "u", "r", "e", " ", "-", " ", "C", "a", "s",
      "e", " ", "A">>

NameCaseB ==
    <<"F", "e", "a", "t", "u", "r", "e", " ", "-", " ", "C", "a", "s",
      "e", " ", "B">>

\* a first progress line
LineStartA ==
    <<"0", "0", ":", "0", "1", " ", "+", "0", ":", " ", "A">>

\* one more passed, untrimmed
LinePassB ==
    <<" ", "0", "0", ":", "0", "2", " ", "+", "1", ":", " ", "B", " ">>

\* one more failed
LineFailC ==
    <<"0", "0", ":", "0", "3", " ", "+", "1", " ", "-", "1", ":", " ", "C">>

\* a pseudo-test
LineTearDown ==
    <<"0", "0", ":", "0", "4", " ", "+", "2", " ", "-", "1", ":", " ",
      "(", "t", "e", "a", "r", "D", "o", "w", "n", "A", "l", "l", ")">>

\* plain output of the test
LineOutput ==
    <<"s", "t", "a", "c", "k", " ", "t", "r", "a", "c", "e">>

\* banner noise
LineBanner ==
    <<"A", "l", "l", " ", "t", "e", "s", "t", "s", " ", "p", "a", "s",
      "s", "e", "d", "!">>

\* a forwarded application log
LineFlutterLog ==
    <<"f", "l", "u", "t", "t", "e", "r", ":", " ", "l", "o", "g">>

\* the driver's error line
LineErrorTag ==
    <<"0", "0", ":", "0", "3", " ", "+", "1", " ", "-", "1", ":", " ",
      "B", " ", "[", "E", "]">>

\* a continuation request
LineContinue ==
    <<"W", "a", "i", "t", "i", "n", "g", " ", "f", "o", "r", " ", "D",
      "B", "u", "s", " ", "m", "e", "t", "h", "o", "d", " ", "c", "a",
      "l", "l", " ", "o", "n", "e", ".", "p", "l", "a", "y", "m", "a",
      "s", "t", "e", "r", ".", "E", "2", "E", ".", "C", "o", "n", "t",
      "i", "n", "u", "e", "(", "c", "o", "d", "e", ")", " ", ".", ".", ".">>

\* output whose text after the first blank carries the error tag
LineErrorNote ==
    <<"l", "o", "g", " ", "[", "E", "]", " ", "l", "o", "s", "t">>

\* a seen name with other counters
LineAgainA ==
    <<"0", "0", ":", "0", "5", " ", "+", "1", ":", " ", "A">>

\* the lines inputs are made of: the generated alphabet, then the sample
LineTable ==
    <<LineStartA,
      LinePassB,
      LineFailC,
      LineTearDown,
      LineOutput,
      LineBanner,
      LineFlutterLog,
      LineErrorTag,
      LineContinue,
      LineAgainA,
      SampleLine1, SampleLine2, SampleLine3, SampleLine4, SampleLine5,
      LineErrorNote>>

\* the entries of LineTable that generated inputs draw from
AlphabetSize == 10

\* the sample, as entries of LineTable
SampleInput == <<11, 12, 13, 14, 15>>

\* a test that prints a tagged line and a stack trace and then fails
ErrorNoteInput == <<1, 16, 5, 3>>

\* the text of a line sequence given as entries of LineTable
TextOf(ids) == [k \in 1..Len(ids) |-> LineTable[ids[k]]]

\* ------------------------------------------------------------------------
\* Output parser: RunFlutter::process_lines
\* ------------------------------------------------------------------------

\* CONTINUE_REGEX matches s from position i on
ContinueMatchAt(s, i) ==
    /\ i + Len(ContinueHead) - 1 <= Len(s)
    /\ \A k \in 1..Len(ContinueHead) :
          ContinueHead[k] = "." \/ s[i + k - 1] = ContinueHead[k]
    /\ LET rest == SubSeq(s, i + Len(ContinueHead), Len(s))
           c == IndexOf(rest, ")")
       IN /\ c # 0
          /\ Len(rest) >= c + 4
          /\ rest[c + 1] = " "

\* DbusUtils::identify_continue_request: <<>> for None, else <<input name>>
identify_continue_request(s) ==
    IF \E i \in 1..Len(s) : ContinueMatchAt(s, i)
    THEN LET i == CHOOSE i \in 1..Len(s) :
                     ContinueMatchAt(s, i) /\ \A j \in 1..(i - 1) : ~ContinueMatchAt(s, j)
             rest == SubSeq(s, i + Len(ContinueHead), Len(s))
         IN <<SubSeq(rest, 1, IndexOf(rest, ")") - 1)>>
    ELSE <<>>

\* run_flutter.rs 374-377: lines skipped right after the full log
IsNoise(line) ==
    \/ line = <<>>
    \/ Contains(line, SomeTestsFailed)
    \/ Contains(line, AllTestsPassed)
    \/ Contains(line, VMServiceFlutterDriver)

\* run_flutter.rs 413: the shape of a progress line's part after the first space
IsProgressRest(rest) == StartsWith(rest, <<"+">>) /\ Contains(rest, <<":">>)

\* the name is never taken as seen
PrevSeen_never(names, name) == FALSE

\* run_flutter.rs 420: prev_test_names.contains(test_name)
PrevSeen(names, name) == name \in names

\* the counter no longer matches when it fell behind
CounterChanged_less(curr, running) == curr < running

\* run_flutter.rs 438, 451: curr_failed != failed, curr_passed != passed
CounterChanged(curr, running) == curr # running

\* the failures are left out of the total
TotalOf_passed_only(passed, failed) == passed

\* run_flutter.rs 485: let total = passed + failed
TotalOf(passed, failed) == passed + failed

Started(name) == [ev |-> "Started", name |-> name, output |-> <<>>]
Passed(name) == [ev |-> "Passed", name |-> name, output |-> <<>>]
Failed(name, output) == [ev |-> "Failed", name |-> name, output |-> output]

\* the locals of process_lines before the first line, with the counters of
\* Results the handlers bump and the history of events and bridge calls
ParserStart ==
    [ passed |-> 0,
      failed |-> 0,
      current_test |-> <<>>,
      full_test_output |-> <<>>,
      current_test_output |-> <<>>,
      collecting_output |-> FALSE,
      prev_test_names |-> {},
      results_passed |-> 0,
      results_failed |-> 0,
      events |-> <<>>,
      bridge |-> <<>> ]

\* run_flutter.rs 437-448: the Failed branch of a progress line
FailedBranch(p, curr_failed) ==
    IF CounterChanged(curr_failed, p.failed) /\ p.current_test # <<>>
    THEN [p EXCEPT !.failed = @ + 1,
                   !.results_failed = @ + 1,
                   !.events = Append(@, Failed(p.current_test[1], p.current_test_output))]
    ELSE p

\* the pass is counted and its event kept back
PassedBranch_silent(p, curr_passed) ==
    IF CounterChanged(curr_passed, p.passed) /\ p.current_test # <<>>
    THEN [p EXCEPT !.passed = @ + 1,
                   !.results_passed = @ + 1]
    ELSE p

\* run_flutter.rs 450-456: the Passed branch of a progress line
PassedBranch(p, curr_passed) ==
    IF CounterChanged(curr_passed, p.passed) /\ p.current_test # <<>>
    THEN [p EXCEPT !.passed = @ + 1,
                   !.results_passed = @ + 1,
                   !.events = Append(@, Passed(p.current_test[1]))]
    ELSE p

\* a test is started whatever the name begins with
StartBranch_any_name(p, test_name) ==
    [p EXCEPT !.current_test = <<test_name>>,
              !.current_test_output = <<>>,
              !.collecting_output = TRUE,
              !.events = Append(@, Started(test_name))]

\* run_flutter.rs 458-472: the current test after a progress line
StartBranch(p, test_name) ==
    IF StartsWith(test_name, <<"(">>)
    THEN [p EXCEPT !.current_test = <<>>]
    ELSE [p EXCEPT !.current_test = <<test_name>>,
                   !.current_test_output = <<>>,
                   !.collecting_output = TRUE,
                   !.events = Append(@, Started(test_name))]

\* run_flutter.rs 414-472: a progress line, rest being the line after its
\* first space
ProgressLine(p, rest) ==
    LET parts == SplitOnce(rest, ":")
        counters == Trim(parts[1])
        test_name == Trim(parts[2])
        tokens == SplitWhitespace(counters)
        counts == [k \in 1..Len(tokens) |-> ParseCount(tokens[k])]
        curr_passed == IF Len(counts) >= 1 THEN counts[1] ELSE 0
        curr_failed == IF Len(counts) >= 2 THEN counts[2] ELSE 0
    IN IF PrevSeen(p.prev_test_names, test_name) THEN p
       ELSE StartBranch(
               PassedBranch(
                  FailedBranch([p EXCEPT !.prev_test_names = @ \cup {test_name}],
                               curr_failed),
                  curr_passed),
               test_name)

\* run_flutter.rs 370-478: the body of the loop for one line; bridge_ok is
\* the outcome of process_user_input when the line asks for input
process_line(p, raw, bridge_ok) ==
    LET line == Trim(raw)
        logged == [p EXCEPT !.full_test_output = Append(@, line)]
        request == identify_continue_request(line)
        stripped == Trim(StripPrefixOr(line, FlutterPrefix))
        split == SplitOnce(stripped, " ")
    IN IF IsNoise(line) THEN logged
       ELSE IF request # <<>> /\ p.current_test # <<>>
            THEN [logged EXCEPT !.bridge =
                     Append(@, [test |-> p.current_test[1],
                                input |-> request[1],
                                ok |-> bridge_ok])]
       ELSE IF split # <<>> /\ Contains(split[2], ErrorTag) THEN logged
       ELSE IF split # <<>> /\ IsProgressRest(split[2])
            THEN ProgressLine(logged, split[2])
       ELSE IF p.collecting_output /\ stripped # <<>>
            THEN [logged EXCEPT !.current_test_output = Append(@, stripped)]
       ELSE logged

\* the loop of process_lines over a whole line sequence
RECURSIVE ParseAll(_, _)
ParseAll(p, ls) ==
    IF ls = <<>> THEN p ELSE ParseAll(process_line(p, Head(ls), TRUE), Tail(ls))

\* ------------------------------------------------------------------------
\* Output parser: state and steps
\* ------------------------------------------------------------------------

Inputs ==
    UNION {[1..n -> 1..AlphabetSize] : n \in 0..MaxLines}
        \cup {SampleInput, ErrorNoteInput}

\* the targets RunFlutter::run chooses between (run_flutter.rs 64-72)
Targets == {"local", "remote"}

\* RunFlutter::run has not returned: no result, no exit status
NotReturned == [result |-> "none", waited |-> FALSE, success |-> TRUE]

\* longest line sequence of a whole run of RunFlutter::run
MaxRunLines == 2

RunnerInputs == {ls \in Inputs : Len(ls) <= MaxRunLines}

ParserIdle ==
    /\ input = <<>>
    /\ next_line = 1
    /\ parser = ParserStart
    /\ results = [total |-> 0, time_set |-> FALSE, full_log |-> <<>>]
    /\ ppc = "idle"
    /\ pres = "none"
    /\ target = "local"
    /\ run_res = NotReturned
    /\ finished_read = <<>>

ParserInit ==
    /\ input \in Inputs
    /\ next_line = 1
    /\ parser = ParserStart
    /\ results = [total |-> 0, time_set |-> FALSE, full_log |-> <<>>]
    /\ ppc = "reading"
    /\ pres = "none"
    /\ target = "local"
    /\ run_res = NotReturned
    /\ finished_read = <<>>

\* RunFlutter::run on either target, the stream started
RunnerInit ==
    /\ input \in RunnerInputs
    /\ next_line = 1
    /\ parser = ParserStart
    /\ results = [total |-> 0, time_set |-> FALSE, full_log |-> <<>>]
    /\ ppc = "reading"
    /\ pres = "none"
    /\ target \in Targets
    /\ run_res = NotReturned
    /\ finished_read = <<>>

\* run_flutter.rs 382-384: the line is handed to process_user_input
HandedToBridge(p, raw) ==
    /\ ~IsNoise(Trim(raw))
    /\ identify_continue_request(Trim(raw)) # <<>>
    /\ p.current_test # <<>>

\* an Err of process_user_input is returned to the caller of process_lines
bridge_error_result_propagated(bridge_ok) ==
    IF bridge_ok THEN "none" ELSE "err_user_input"

\* run_flutter.rs 385-401: what process_lines returns because of the
\* outcome of process_user_input: nothing, an Err is logged and the loop
\* continues
bridge_error_result(bridge_ok) == "none"

\* one iteration of `for line in lines`
ProcessLine ==
    /\ ppc = "reading"
    /\ next_line <= Len(input)
    /\ \E bridge_ok \in BOOLEAN :
          LET raw == LineTable[input[next_line]]
              r == IF HandedToBridge(parser, raw)
                   THEN bridge_error_result(bridge_ok) ELSE "none"
          IN /\ parser' = process_line(parser, raw, bridge_ok)
             /\ pres' = IF r = "none" THEN pres ELSE r
             /\ ppc' = IF r = "none" THEN ppc ELSE "aborted"
    /\ next_line' = next_line + 1
    /\ UNCHANGED <<input, results>>
    /\ UNCHANGED <<target, run_res, finished_read>>
    /\ UNCHANGED <<pipeVars, registryVars, streamVars, bridgeVars,
                   execVars, localVars, askVars>>

\* `let mut line = line?`: the iterator yields a read error; the remote
\* iterator is wrapped by lines.map(Ok) and never does
LineReadError ==
    /\ ppc = "reading"
    /\ target = "local"
    /\ ppc' = "aborted"
    /\ pres' = "err_read"
    /\ UNCHANGED <<input, next_line, parser, results>>
    /\ UNCHANGED <<target, run_res, finished_read>>
    /\ UNCHANGED <<pipeVars, registryVars, streamVars, bridgeVars,
                   execVars, localVars, askVars>>

\* the result is Ok whatever the counters are
process_lines_result_ok(failed) == "ok"

\* run_flutter.rs 497-501: the result of process_lines at stream end
process_lines_result(failed) ==
    IF failed > 0 THEN "err_some_tests_failed" ELSE "ok"

\* run_flutter.rs 481-501: the iterator has ended
EndOfStream ==
    /\ ppc = "reading"
    /\ next_line > Len(input)
    /\ results' = [total |-> TotalOf(parser.passed, parser.failed),
                   time_set |-> TRUE,
                   full_log |-> parser.full_test_output]
    /\ pres' = process_lines_result(parser.failed)
    /\ ppc' = "done"
    /\ UNCHANGED <<input, next_line, parser>>
    /\ UNCHANGED <<target, run_res, finished_read>>
    /\ UNCHANGED <<pipeVars, registryVars, streamVars, bridgeVars,
                   execVars, localVars, askVars>>

\* the exit status is looked at whatever process_lines returned
process_output_strict(r, wait_ok, success) ==
    IF ~wait_ok THEN "err_wait"
    ELSE IF ~success THEN "err_during_tests"
    ELSE r

\* run_flutter.rs 322-337: the result of process_output from the result r
\* of process_lines, the outcome of wait_with_output and the exit status
process_output(r, wait_ok, success) ==
    IF ~wait_ok THEN "err_wait"
    ELSE IF r = "ok" /\ ~success THEN "err_during_tests"
    ELSE r

\* run_flutter.rs 346: the result of process_remote_output is that of
\* process_lines
process_remote_output(r) == r

\* execute_local: process_lines has returned, the child is waited for
ProcessOutput ==
    /\ target = "local"
    /\ ppc \in {"done", "aborted"}
    /\ run_res = NotReturned
    /\ \E wait_ok, success \in BOOLEAN :
          run_res' = [result |-> process_output(pres, wait_ok, success),
                      waited |-> wait_ok,
                      success |-> success]
    /\ UNCHANGED <<input, next_line, parser, results, ppc, pres, target,
                   finished_read>>
    /\ UNCHANGED <<pipeVars, registryVars, streamVars, bridgeVars,
                   execVars, localVars, askVars>>

\* execute_remote: process_lines has returned; the remote command has ended
\* with some exit status, which nothing reads
ProcessRemoteOutput ==
    /\ target = "remote"
    /\ ppc = "done"
    /\ run_res = NotReturned
    /\ \E success \in BOOLEAN :
          run_res' = [result |-> process_remote_output(pres),
                      waited |-> FALSE,
                      success |-> success]
    /\ UNCHANGED <<input, next_line, parser, results, ppc, pres, target,
                   finished_read>>
    /\ UNCHANGED <<pipeVars, registryVars, streamVars, bridgeVars,
                   execVars, localVars, askVars>>

\* the Results as get_results hands them out
get_results ==
    [passed |-> parser.results_passed,
     failed |-> parser.results_failed,
     total |-> results.total,
     time_set |-> results.time_set]

\* HookResults::run, in the Finished phase that follows the test step
FinishedHookReads ==
    /\ run_res # NotReturned
    /\ finished_read = <<>>
    /\ finished_read' = <<get_results>>
    /\ UNCHANGED <<input, next_line, parser, results, ppc, pres, target,
                   run_res>>
    /\ UNCHANGED <<pipeVars, registryVars, streamVars, bridgeVars,
                   execVars, localVars, askVars>>

ParserNext ==
    \/ ProcessLine
    \/ LineReadError
    \/ EndOfStream

RunnerNext ==
    \/ ProcessLine
    \/ LineReadError
    \/ EndOfStream
    \/ ProcessOutput
    \/ ProcessRemoteOutput
    \/ FinishedHookReads

\* ------------------------------------------------------------------------
\* Process registry: CommandUtils::track_cmd, track_remote_cmd and
\* terminate_all_cmds, called by the worker and by main
\* ------------------------------------------------------------------------

\* most commands started in one run
MaxCmds == 3

\* the terminate_all_cmds calls of CodeRun::execute (run.rs 141 and 155)
WorkerCalls == 2

Threads == {"worker", "main"}

\* the elements of a sequence
Range(q) == {q[k] : k \in 1..Len(q)}

\* the vector is iterated but keeps its entries
Drained_kept(vec) == vec

\* Vec::drain(..), consumed or dropped: the vector is left empty
Drained(vec) == <<>>

\* a terminate_all_cmds call that has started: the registries it found under
\* their locks and how it ended
NewCall(t, locals) ==
    [by |-> t, locals |-> locals, remotes |-> <<>>, result |-> "running"]

CallsOf(t) == {k \in 1..Len(calls) : calls[k].by = t}

\* the call thread t is in (its latest)
CurrentCall(t) == CHOOSE k \in CallsOf(t) : \A j \in CallsOf(t) : j <= k

\* pkill commands issued for the first n entries of vec, the n-th one
\* failing when failed is set
Issued(vec, n, failed) ==
    [k \in 1..n |-> [cmd |-> vec[k], ok |-> ~(failed /\ k = n)]]

RegistryInit ==
    /\ RUNNING_CMDS = <<>>
    /\ RUNNING_REMOTE_CMDS = <<>>
    /\ lock_holder = [local |-> "none", remote |-> "none"]
    /\ tpc = [t \in Threads |-> "idle"]
    /\ calls = <<>>
    /\ spawned = 0
    /\ alive = {}
    /\ kills = <<>>
    /\ remote_kills = <<>>
    /\ wpc = "running"
    /\ hook_cmds = {}

\* the registry before any use, for the other specifications
RegistryIdle == RegistryInit

\* track_cmd: a started child is pushed under the lock of RUNNING_CMDS
TrackCmd ==
    /\ Alive
    /\ wpc = "running"
    /\ tpc["worker"] = "idle"
    /\ spawned < MaxCmds
    /\ lock_holder.local = "none"
    /\ spawned' = spawned + 1
    /\ alive' = alive \cup {spawned + 1}
    /\ RUNNING_CMDS' = Append(RUNNING_CMDS, spawned + 1)
    /\ UNCHANGED <<RUNNING_REMOTE_CMDS, lock_holder, tpc, calls, kills,
                   remote_kills, wpc,
                   hook_cmds>>
    /\ UNCHANGED <<pipeVars, parserVars, streamVars, bridgeVars,
                   execVars, localVars, askVars>>

\* track_remote_cmd: a started remote command is pushed under the lock of
\* RUNNING_REMOTE_CMDS
TrackRemoteCmd ==
    /\ Alive
    /\ wpc = "running"
    /\ tpc["worker"] = "idle"
    /\ spawned < MaxCmds
    /\ lock_holder.remote = "none"
    /\ spawned' = spawned + 1
    /\ RUNNING_REMOTE_CMDS' = Append(RUNNING_REMOTE_CMDS, spawned + 1)
    /\ UNCHANGED <<RUNNING_CMDS, lock_holder, tpc, calls, alive, kills,
                   remote_kills, wpc,
                   hook_cmds>>
    /\ UNCHANGED <<pipeVars, parserVars, streamVars, bridgeVars,
                   execVars, localVars, askVars>>

\* HookCustom::run_local_async: a detached thread runs `sh -c` to its end
\* under Command::output; the child is not handed to track_cmd
RunLocalAsync ==
    /\ Alive
    /\ wpc = "running"
    /\ tpc["worker"] = "idle"
    /\ spawned < MaxCmds
    /\ spawned' = spawned + 1
    /\ alive' = alive \cup {spawned + 1}
    /\ hook_cmds' = hook_cmds \cup {spawned + 1}
    /\ UNCHANGED <<RUNNING_CMDS, RUNNING_REMOTE_CMDS, lock_holder, tpc, calls,
                   kills, remote_kills, wpc>>
    /\ UNCHANGED <<pipeVars, parserVars, streamVars, bridgeVars,
                   execVars, localVars, askVars>>

\* HookCustom::run_remote_async: `nohup .. &` is started on the remote host
\* and a detached thread polls it; the command is not handed to
\* track_remote_cmd
RunRemoteAsync ==
    /\ Alive
    /\ wpc = "running"
    /\ tpc["worker"] = "idle"
    /\ spawned < MaxCmds
    /\ spawned' = spawned + 1
    /\ hook_cmds' = hook_cmds \cup {spawned + 1}
    /\ UNCHANGED <<RUNNING_CMDS, RUNNING_REMOTE_CMDS, lock_holder, tpc, calls,
                   alive, kills, remote_kills, wpc>>
    /\ UNCHANGED <<pipeVars, parserVars, streamVars, bridgeVars,
                   execVars, localVars, askVars>>

\* the worker calls terminate_all_cmds (before or after the post-hooks)
WorkerTerminateCall ==
    /\ Alive
    /\ wpc = "running"
    /\ tpc["worker"] = "idle"
    /\ Cardinality(CallsOf("worker")) < WorkerCalls
    /\ tpc' = [tpc EXCEPT !["worker"] = "lock_local"]
    /\ UNCHANGED <<RUNNING_CMDS, RUNNING_REMOTE_CMDS, lock_holder, calls,
                   spawned, alive, kills, remote_kills, wpc,
                   hook_cmds>>
    /\ UNCHANGED <<pipeVars, parserVars, streamVars, bridgeVars,
                   execVars, localVars, askVars>>

\* main calls terminate_all_cmds in the signal arm
MainTerminateCall ==
    /\ main_pc = "terminate"
    /\ main_pc' = "terminating"
    /\ tpc' = [tpc EXCEPT !["main"] = "lock_local"]
    /\ UNCHANGED <<hooks, pc, phases, phase, idx, arg_has_error, has_error,
                   IS_RUNNING, res, results_error, trace, chan, signal_sent,
                   sent, outcome>>
    /\ UNCHANGED <<RUNNING_CMDS, RUNNING_REMOTE_CMDS, lock_holder, calls,
                   spawned, alive, kills, remote_kills, wpc,
                   hook_cmds>>
    /\ UNCHANGED <<parserVars, streamVars, bridgeVars,
                   execVars, localVars, askVars>>

\* terminate_local_cmds: RUNNING_CMDS.lock()
LockLocal ==
    /\ Alive
    /\ \E t \in Threads :
          /\ tpc[t] = "lock_local"
          /\ lock_holder.local = "none"
          /\ lock_holder' = [lock_holder EXCEPT !.local = t]
          /\ tpc' = [tpc EXCEPT ![t] = "drain_local"]
          /\ calls' = Append(calls, NewCall(t, RUNNING_CMDS))
    /\ UNCHANGED <<RUNNING_CMDS, RUNNING_REMOTE_CMDS, spawned, alive, kills,
                   remote_kills, wpc,
                   hook_cmds>>
    /\ UNCHANGED <<pipeVars, parserVars, streamVars, bridgeVars,
                   execVars, localVars, askVars>>

\* terminate_local_cmds: every drained child is killed and waited for, then
\* the guard is dropped
TerminateLocal ==
    /\ Alive
    /\ \E t \in Threads :
          /\ tpc[t] = "drain_local"
          /\ kills' = kills \o RUNNING_CMDS
          /\ alive' = alive \ Range(RUNNING_CMDS)
          /\ RUNNING_CMDS' = Drained(RUNNING_CMDS)
          /\ lock_holder' = [lock_holder EXCEPT !.local = "none"]
          /\ tpc' = [tpc EXCEPT ![t] = "lock_remote"]
    /\ UNCHANGED <<RUNNING_REMOTE_CMDS, calls, spawned, remote_kills, wpc,
                   hook_cmds>>
    /\ UNCHANGED <<pipeVars, parserVars, streamVars, bridgeVars,
                   execVars, localVars, askVars>>

\* terminate_remote_cmds: RUNNING_REMOTE_CMDS.lock()
LockRemote ==
    /\ Alive
    /\ \E t \in Threads :
          /\ tpc[t] = "lock_remote"
          /\ lock_holder.remote = "none"
          /\ lock_holder' = [lock_holder EXCEPT !.remote = t]
          /\ tpc' = [tpc EXCEPT ![t] = "drain_remote"]
          /\ calls' = [calls EXCEPT ![CurrentCall(t)].remotes = RUNNING_REMOTE_CMDS]
    /\ UNCHANGED <<RUNNING_CMDS, RUNNING_REMOTE_CMDS, spawned, alive, kills,
                   remote_kills, wpc,
                   hook_cmds>>
    /\ UNCHANGED <<pipeVars, parserVars, streamVars, bridgeVars,
                   execVars, localVars, askVars>>

\* terminate_remote_cmds: a pkill is run for the drained entries in order;
\* the first run_command_str that fails returns from the loop with `?`, and
\* the dropped Drain takes the entries behind it out of the vector
TerminateRemote ==
    /\ Alive
    /\ \E t \in Threads :
          /\ tpc[t] = "drain_remote"
          /\ \E n \in 0..Len(RUNNING_REMOTE_CMDS), failed \in BOOLEAN :
                /\ failed => n >= 1
                /\ ~failed => n = Len(RUNNING_REMOTE_CMDS)
                /\ remote_kills' =
                      remote_kills \o Issued(RUNNING_REMOTE_CMDS, n, failed)
                /\ calls' = [calls EXCEPT ![CurrentCall(t)].result =
                                IF failed THEN "err" ELSE "ok"]
          /\ RUNNING_REMOTE_CMDS' = Drained(RUNNING_REMOTE_CMDS)
          /\ lock_holder' = [lock_holder EXCEPT !.remote = "none"]
          /\ tpc' = [tpc EXCEPT ![t] = "idle"]
    /\ UNCHANGED <<RUNNING_CMDS, spawned, alive, kills, wpc,
                   hook_cmds>>
    /\ UNCHANGED <<pipeVars, parserVars, streamVars, bridgeVars,
                   execVars, localVars, askVars>>

\* main.rs 111-118: the call has returned (an error is only logged) and
\* main returns
MainReturn ==
    /\ main_pc = "terminating"
    /\ tpc["main"] = "idle"
    /\ main_pc' = "exited"
    /\ UNCHANGED <<hooks, pc, phases, phase, idx, arg_has_error, has_error,
                   IS_RUNNING, res, results_error, trace, chan, signal_sent,
                   sent, outcome>>
    /\ UNCHANGED <<registryVars, parserVars, streamVars, bridgeVars,
                   execVars, localVars, askVars>>

\* process_command has returned: the worker reports on the channel
WorkerFinish ==
    /\ Alive
    /\ wpc = "running"
    /\ tpc["worker"] = "idle"
    /\ wpc' = "finished"
    /\ \E r \in {"ok", "err_tests"} :
          /\ chan' = send(chan, WorkerMessage(r))
          /\ sent' = Append(sent, WorkerMessage(r))
    /\ UNCHANGED <<hooks, pc, phases, phase, idx, arg_has_error, has_error,
                   IS_RUNNING, res, results_error, trace, signal_sent, main_pc,
                   outcome>>
    /\ UNCHANGED <<RUNNING_CMDS, RUNNING_REMOTE_CMDS, lock_holder, tpc, calls,
                   spawned, alive, kills, remote_kills, hook_cmds>>
    /\ UNCHANGED <<parserVars, streamVars, bridgeVars,
                   execVars, localVars, askVars>>

RegistryNext ==
    \/ TrackCmd
    \/ TrackRemoteCmd
    \/ RunLocalAsync
    \/ RunRemoteAsync
    \/ WorkerTerminateCall
    \/ LockLocal
    \/ TerminateLocal
    \/ LockRemote
    \/ TerminateRemote
    \/ WorkerFinish
    \/ Signal
    \/ MainRecv
    \/ MainSetRunning
    \/ MainTerminateCall
    \/ MainReturn

\* ------------------------------------------------------------------------
\* Remote line stream: the reader thread of RemoteInfo::exec_remote_stream
\* and RemoteLineIterator
\* ------------------------------------------------------------------------

\* longest generated byte stream
MaxBytes == 4

\* b'\n'
Newline == 10

\* the bytes of the generated streams: '\n', 'a', and the two bytes of the
\* UTF-8 encoding of U+00E9, each of which is invalid on its own
ByteAlphabet == {10, 97, 169, 195}

\* "abc\ndef\ngh"
SampleBytes == <<97, 98, 99, 10, 100, 101, 102, 10, 103, 104>>

IsContinuation(b) == b >= 128 /\ b <= 191

\* the length of the UTF-8 sequence that starts at s[i], or 0 when no
\* well-formed sequence starts there
Utf8SeqLen(s, i) ==
    LET b == s[i]
        has(k) == i + k <= Len(s)
        cont(k) == has(k) /\ IsContinuation(s[i + k])
        within(k, lo, hi) == has(k) /\ s[i + k] >= lo /\ s[i + k] <= hi
    IN IF b <= 127 THEN 1
       ELSE IF b >= 194 /\ b <= 223 THEN (IF cont(1) THEN 2 ELSE 0)
       ELSE IF b = 224 THEN (IF within(1, 160, 191) /\ cont(2) THEN 3 ELSE 0)
       ELSE IF b = 237 THEN (IF within(1, 128, 159) /\ cont(2) THEN 3 ELSE 0)
       ELSE IF b >= 225 /\ b <= 239 THEN (IF cont(1) /\ cont(2) THEN 3 ELSE 0)
       ELSE IF b = 240
            THEN (IF within(1, 144, 191) /\ cont(2) /\ cont(3) THEN 4 ELSE 0)
       ELSE IF b = 244
            THEN (IF within(1, 128, 143) /\ cont(2) /\ cont(3) THEN 4 ELSE 0)
       ELSE IF b >= 241 /\ b <= 243
            THEN (IF cont(1) /\ cont(2) /\ cont(3) THEN 4 ELSE 0)
       ELSE 0

RECURSIVE ValidUtf8From(_, _)
ValidUtf8From(s, i) ==
    IF i > Len(s) THEN TRUE
    ELSE IF Utf8SeqLen(s, i) = 0 THEN FALSE
    ELSE ValidUtf8From(s, i + Utf8SeqLen(s, i))

\* String::from_utf8(bytes).is_ok()
from_utf8_ok(s) == ValidUtf8From(s, 1)

\* str::trim_end_matches('\n')
RECURSIVE TrimEndNewlines(_)
TrimEndNewlines(s) ==
    IF s # <<>> /\ s[Len(s)] = Newline
    THEN TrimEndNewlines(SubSeq(s, 1, Len(s) - 1))
    ELSE s

\* buffer.iter().position(|&b| b == b'\n'), or 0
NewlinePos(buf) ==
    IF \E i \in 1..Len(buf) : buf[i] = Newline
    THEN CHOOSE i \in 1..Len(buf) :
            buf[i] = Newline /\ \A j \in 1..(i - 1) : buf[j] # Newline
    ELSE 0

\* app_state.rs 180-185: the while-let loop over the complete lines of the
\* buffer; gives the buffer left over and the lines sent
RECURSIVE SplitLines(_, _)
SplitLines(buf, out) ==
    LET pos == NewlinePos(buf) IN
    IF pos = 0 THEN [buffer |-> buf, lines |-> out]
    ELSE LET line == SubSeq(buf, 1, pos)
             rest == SubSeq(buf, pos + 1, Len(buf))
         IN IF from_utf8_ok(line)
            THEN SplitLines(rest, Append(out, TrimEndNewlines(line)))
            ELSE SplitLines(rest, out)

\* app_state.rs 202-206: the remainder sent after the loop
FlushLines(buf) ==
    IF buf # <<>> /\ from_utf8_ok(buf) THEN <<buf>> ELSE <<>>

ByteStreams ==
    UNION {[1..n -> ByteAlphabet] : n \in 0..MaxBytes} \cup {SampleBytes}

StreamInit ==
    /\ bytes \in ByteStreams
    /\ read_pos = 0
    /\ buffer = <<>>
    /\ tx = <<>>
    /\ lines_out = <<>>
    /\ rpc = "reading"
    /\ rx_dropped = FALSE
    /\ refused = <<>>
    /\ ended = FALSE

\* no remote stream, for the other specifications
StreamIdle ==
    /\ bytes = <<>>
    /\ read_pos = 0
    /\ buffer = <<>>
    /\ tx = <<>>
    /\ lines_out = <<>>
    /\ rpc = "idle"
    /\ rx_dropped = FALSE
    /\ refused = <<>>
    /\ ended = FALSE

\* `let _ = tx.send(..)`: the lines join the queue while the receiver lives;
\* without a receiver send returns Err, which is discarded
SendAll(queue, lines, dropped) == IF dropped THEN queue ELSE queue \o lines

\* the lines whose send returned Err
Refused(lines, dropped) == IF dropped THEN lines ELSE <<>>

\* channel.read returns n > 0 bytes: they join the buffer and its complete
\* lines are sent
ReadChunk ==
    /\ rpc = "reading"
    /\ \E n \in 1..(Len(bytes) - read_pos) :
          LET split == SplitLines(buffer \o SubSeq(bytes, read_pos + 1, read_pos + n),
                                  <<>>)
          IN /\ buffer' = split.buffer
             /\ tx' = SendAll(tx, split.lines, rx_dropped)
             /\ refused' = refused \o Refused(split.lines, rx_dropped)
             /\ read_pos' = read_pos + n
    /\ UNCHANGED <<bytes, lines_out, rpc, rx_dropped, ended>>
    /\ UNCHANGED <<pipeVars, parserVars, registryVars, bridgeVars,
                   execVars, localVars, askVars>>

\* channel.eof(): every byte has been read and the remote side has closed
ChannelEof ==
    /\ rpc = "reading"
    /\ read_pos = Len(bytes)
    /\ rpc' = "flush"
    /\ UNCHANGED <<bytes, read_pos, buffer, tx, lines_out, rx_dropped, refused,
                   ended>>
    /\ UNCHANGED <<pipeVars, parserVars, registryVars, bridgeVars,
                   execVars, localVars, askVars>>

\* `Err(_) => break`: a read fails, the bytes behind read_pos never arrive
ReadError ==
    /\ rpc = "reading"
    /\ read_pos < Len(bytes)
    /\ rpc' = "flush"
    /\ UNCHANGED <<bytes, read_pos, buffer, tx, lines_out, rx_dropped, refused,
                   ended>>
    /\ UNCHANGED <<pipeVars, parserVars, registryVars, bridgeVars,
                   execVars, localVars, askVars>>

\* the remainder is sent, then the thread ends and drops the sender
FlushRemainder ==
    /\ rpc = "flush"
    /\ tx' = SendAll(tx, FlushLines(buffer), rx_dropped)
    /\ refused' = refused \o Refused(FlushLines(buffer), rx_dropped)
    /\ buffer' = <<>>
    /\ rpc' = "closed"
    /\ UNCHANGED <<bytes, read_pos, lines_out, rx_dropped, ended>>
    /\ UNCHANGED <<pipeVars, parserVars, registryVars, bridgeVars,
                   execVars, localVars, askVars>>

\* RemoteLineIterator::next: rx.recv() hands out the oldest line
IteratorNext ==
    /\ rpc # "idle"
    /\ ~rx_dropped
    /\ tx # <<>>
    /\ lines_out' = Append(lines_out, recv(tx))
    /\ tx' = Remaining(tx)
    /\ UNCHANGED <<bytes, read_pos, buffer, rpc, rx_dropped, refused, ended>>
    /\ UNCHANGED <<pipeVars, parserVars, registryVars, bridgeVars,
                   execVars, localVars, askVars>>

\* the channel counts as disconnected as soon as the remote side is at EOF
Disconnected_at_eof(state) == state \in {"flush", "closed"}

\* the Sender is dropped when the reader thread's closure returns, after the
\* remainder has been sent (app_state.rs 171-209)
Disconnected(state) == state = "closed"

\* RemoteLineIterator::next: rx.recv() returns Err on an empty channel
\* whose Sender is gone, and next returns None
IteratorEnd ==
    /\ ~rx_dropped
    /\ ~ended
    /\ tx = <<>>
    /\ Disconnected(rpc)
    /\ ended' = TRUE
    /\ UNCHANGED <<bytes, read_pos, buffer, tx, lines_out, rpc, rx_dropped,
                   refused>>
    /\ UNCHANGED <<pipeVars, parserVars, registryVars, bridgeVars,
                   execVars, localVars, askVars>>

\* the caller drops the RemoteLineIterator: the Receiver goes with it and the
\* queued lines are discarded; the reader thread holds the Sender and the
\* ssh channel and is not told
DropIterator ==
    /\ rpc # "idle"
    /\ ~rx_dropped
    /\ rx_dropped' = TRUE
    /\ tx' = <<>>
    /\ UNCHANGED <<bytes, read_pos, buffer, lines_out, rpc, refused, ended>>
    /\ UNCHANGED <<pipeVars, parserVars, registryVars, bridgeVars,
                   execVars, localVars, askVars>>

StreamNext ==
    \/ ReadChunk
    \/ ChannelEof
    \/ ReadError
    \/ FlushRemainder
    \/ IteratorNext
    \/ IteratorEnd
    \/ DropIterator

\* ------------------------------------------------------------------------
\* Interactive input bridge: RunFlutter::process_user_input
\* ------------------------------------------------------------------------

\* the values a provider can hand out: nothing, a code, a code typed with
\* blanks around it
InputValues == {<<>>, <<"4", "2">>, <<" ", "7", " ">>}

Ok(v) == [ok |-> TRUE, value |-> v]
Err == [ok |-> FALSE, value |-> <<>>]

\* UserInputGmailRegexType and whether the custom pattern compiles
RegexKinds == {"mfa", "custom", "custom_invalid"}

\* what fetch_latest_email_matching_regex returns
FetchOutcomes == {Err} \cup {Ok(v) : v \in InputValues}

\* what the user does at the prompt: a line arrives within 30 s or not
TypedLines == [arrives : BOOLEAN, text : InputValues]

\* one call: the gmail client exists and a rule matches the input name, the
\* kind of its regex, the outcome of the fetch, of the flush of the prompt,
\* the user's line, and the outcome of the continuation command
BridgeRequests ==
    [gmail : BOOLEAN, regex : RegexKinds, fetch : FetchOutcomes,
     flush_ok : BOOLEAN, typed : TypedLines, send_ok : BOOLEAN]

\* Result::unwrap_or_default for a String
unwrap_or_default(r) == IF r.ok THEN r.value ELSE <<>>

\* Regex::new(&regex_pattern)
regex_compiles(kind) == kind # "custom_invalid"

\* OsUtils::ask: Err when the flush fails, the trimmed line when it arrives
\* in time, the empty string on timeout
ask(flush_ok, typed) ==
    IF ~flush_ok THEN Err
    ELSE IF typed.arrives THEN Ok(Trim(typed.text))
    ELSE Ok(<<>>)

\* run_flutter.rs 541: `Regex::new(..).auto_err(..)?` returns from
\* process_user_input
ObtainFails(req) == req.gmail /\ ~regex_compiles(req.regex)

\* run_flutter.rs 523-566: the value of user_input
ObtainedValue(req) ==
    IF req.gmail
    THEN unwrap_or_default(req.fetch)
    ELSE unwrap_or_default(ask(req.flush_ok, req.typed))

\* DbusUtils::dbus_method_continue_cmd: the text of the command, in pieces
dbus_method_continue_cmd(v) ==
    <<"busctl --user call ", "one.playmaster.E2E", " ", "/one/playmaster/E2E",
      " ", "one.playmaster.E2E", " ", "Continue", " s \"", v, "\"">>

\* the string argument a continuation command carries
PayloadOf(cmd) == cmd[10]

BridgeInit ==
    /\ breq \in BridgeRequests
    /\ bpc = "obtain"
    /\ user_input = <<>>
    /\ dbus_cmds = <<>>
    /\ bres = "none"

\* no bridge call, for the other specifications
BridgeIdle ==
    /\ breq = [gmail |-> FALSE, regex |-> "mfa", fetch |-> Err,
               flush_ok |-> TRUE, typed |-> [arrives |-> FALSE, text |-> <<>>],
               send_ok |-> TRUE]
    /\ bpc = "idle"
    /\ user_input = <<>>
    /\ dbus_cmds = <<>>
    /\ bres = "none"

\* run_flutter.rs 523-568: the value is obtained, or the call returns Err
ObtainValue ==
    /\ bpc = "obtain"
    /\ IF ObtainFails(breq)
       THEN /\ bres' = "err_regex"
            /\ bpc' = "returned"
            /\ UNCHANGED user_input
       ELSE /\ user_input' = ObtainedValue(breq)
            /\ bpc' = "send"
            /\ UNCHANGED bres
    /\ UNCHANGED <<breq, dbus_cmds>>
    /\ UNCHANGED <<pipeVars, parserVars, registryVars, streamVars, execVars,
                   localVars, askVars>>

\* run_flutter.rs 569-577: the command is composed and executed; the
\* accessors of the context (571-572) are taken to succeed
SendContinue ==
    /\ bpc = "send"
    /\ dbus_cmds' = Append(dbus_cmds, dbus_method_continue_cmd(user_input))
    /\ bres' = IF breq.send_ok THEN "ok" ELSE "err_command"
    /\ bpc' = "returned"
    /\ UNCHANGED <<breq, user_input>>
    /\ UNCHANGED <<pipeVars, parserVars, registryVars, streamVars, execVars,
                   localVars, askVars>>

BridgeNext ==
    \/ ObtainValue
    \/ SendContinue

\* ------------------------------------------------------------------------
\* Synchronous execute: CommandUtils::run_command_str and RemoteInfo::exec
\* ------------------------------------------------------------------------

\* longest output a command writes to its standard output
MaxOut == 2

\* the bytes commands write: 'a' and the two bytes of U+00E9
OutAlphabet == {97, 195, 169}

\* U+FFFD, which from_utf8_lossy puts in place of a malformed sequence
Replacement == 65533

\* the steps of a remote execute that can fail (app_state.rs 46-52, 62-67,
\* 81-114, 128-129) and the one of a local execute (command.rs 125-130)
RemoteFaults ==
    {"connect", "handshake", "auth", "channel", "pty", "exec", "read",
     "close", "status"}

LocalFaults == {"spawn"}

\* the faults get_sess and the start of the command report
StartFaults == {"connect", "handshake", "auth", "channel", "pty", "exec"}

\* the kind of failure a failing step is
FaultKind(f) ==
    CASE f = "connect" -> "connection"
      [] f = "handshake" -> "handshake"
      [] f = "auth" -> "authentication"
      [] f \in {"channel", "pty", "exec", "spawn"} -> "spawn"
      [] f \in {"read", "close", "status"} -> "read"

\* how the child ends: with an exit code, or killed by a signal
ExitCodes == {<<0>>, <<1>>, <<255>>, <<>>}

\* String::from_utf8_lossy over the byte alphabet: a well-formed sequence is
\* kept, a byte that starts none becomes U+FFFD
RECURSIVE from_utf8_lossy(_)
from_utf8_lossy(s) ==
    IF s = <<>> THEN <<>>
    ELSE LET n == Utf8SeqLen(s, 1)
         IN IF n = 0
            THEN <<Replacement>> \o from_utf8_lossy(Tail(s))
            ELSE SubSeq(s, 1, n) \o from_utf8_lossy(SubSeq(s, n + 1, Len(s)))

\* command.rs 128-129: .stdout(Stdio::inherit()).stderr(Stdio::inherit())
LocalStdio == "inherit"

\* Command::output: what Output.stdout / Output.stderr hold of the bytes
\* written; an inherited stream goes to the parent's terminal
Captured(stdio, written) == IF stdio = "piped" THEN written ELSE <<>>

\* every exit code is reported as 0
exit_status_zero(code) == 0

\* command.rs 134: output.status.code().unwrap_or(-1)
exit_status(code) == IF code = <<>> THEN 0 - 1 ELSE code[1]

OutputOk(out, err, status) ==
    [ok |-> TRUE, error |-> "none", stdout |-> out, stderr |-> err,
     status |-> status]

OutputErr(f) ==
    [ok |-> FALSE, error |-> f, stdout |-> <<>>, stderr |-> <<>>, status |-> 0]

NoOutput ==
    [ok |-> FALSE, error |-> "not_returned", stdout |-> <<>>, stderr |-> <<>>,
     status |-> 0]

Writes == UNION {[1..n -> OutAlphabet] : n \in 0..MaxOut}

\* a remote command that ends reports an exit code
ExecInputs ==
    {i \in [target : Targets, fault : {"none"} \cup RemoteFaults \cup LocalFaults,
            out : Writes, err : {<<>>, <<97>>}, exit : ExitCodes] :
        /\ i.target = "local" => i.fault \in {"none"} \cup LocalFaults
        /\ i.target = "remote" => i.fault \in {"none"} \cup RemoteFaults
        /\ i.target = "remote" => i.exit # <<>>}

ExecInit ==
    /\ xin \in ExecInputs
    /\ xpc = "start"
    /\ xout_pos = 0
    /\ xerr_pos = 0
    /\ xstdout = <<>>
    /\ xstderr = <<>>
    /\ xres = NoOutput

\* no execute, for the other specifications
ExecIdle ==
    /\ xin = [target |-> "local", fault |-> "none", out |-> <<>>, err |-> <<>>,
              exit |-> <<0>>]
    /\ xpc = "idle"
    /\ xout_pos = 0
    /\ xerr_pos = 0
    /\ xstdout = <<>>
    /\ xstderr = <<>>
    /\ xres = NoOutput

\* command.rs 125-135: bash -c runs to its end under Command::output
ExecLocal ==
    /\ xpc = "start"
    /\ xin.target = "local"
    /\ xres' = IF xin.fault = "spawn"
               THEN OutputErr("spawn")
               ELSE OutputOk(from_utf8_lossy(Captured(LocalStdio, xin.out)),
                             from_utf8_lossy(Captured(LocalStdio, xin.err)),
                             exit_status(xin.exit))
    /\ xpc' = "returned"
    /\ UNCHANGED <<xin, xout_pos, xerr_pos, xstdout, xstderr>>
    /\ UNCHANGED <<pipeVars, parserVars, registryVars, streamVars, bridgeVars,
                   localVars, askVars>>

\* app_state.rs 60-70: session, channel, pty and the start of the command
ExecRemoteStart ==
    /\ xpc = "start"
    /\ xin.target = "remote"
    /\ IF xin.fault \in StartFaults
       THEN xres' = OutputErr(xin.fault) /\ xpc' = "returned"
       ELSE xpc' = "reading" /\ UNCHANGED xres
    /\ UNCHANGED <<xin, xout_pos, xerr_pos, xstdout, xstderr>>
    /\ UNCHANGED <<pipeVars, parserVars, registryVars, streamVars, bridgeVars,
                   localVars, askVars>>

\* app_state.rs 81-91: channel.read returns n > 0 bytes of stdout
ExecReadStdout ==
    /\ xpc = "reading"
    /\ \E n \in 1..(Len(xin.out) - xout_pos) :
          /\ xstdout' = xstdout \o
                 from_utf8_lossy(SubSeq(xin.out, xout_pos + 1, xout_pos + n))
          /\ xout_pos' = xout_pos + n
    /\ UNCHANGED <<xin, xpc, xerr_pos, xstderr, xres>>
    /\ UNCHANGED <<pipeVars, parserVars, registryVars, streamVars, bridgeVars,
                   localVars, askVars>>

\* app_state.rs 100-107: channel.stderr().read returns n > 0 bytes
ExecReadStderr ==
    /\ xpc = "reading"
    /\ \E n \in 1..(Len(xin.err) - xerr_pos) :
          /\ xstderr' = xstderr \o
                 from_utf8_lossy(SubSeq(xin.err, xerr_pos + 1, xerr_pos + n))
          /\ xerr_pos' = xerr_pos + n
    /\ UNCHANGED <<xin, xpc, xout_pos, xstdout, xres>>
    /\ UNCHANGED <<pipeVars, parserVars, registryVars, streamVars, bridgeVars,
                   localVars, askVars>>

\* app_state.rs 92-96, 108-112: a read fails with something other than
\* WouldBlock
ExecReadError ==
    /\ xpc = "reading"
    /\ xin.fault = "read"
    /\ xres' = OutputErr("read")
    /\ xpc' = "returned"
    /\ UNCHANGED <<xin, xout_pos, xerr_pos, xstdout, xstderr>>
    /\ UNCHANGED <<pipeVars, parserVars, registryVars, streamVars, bridgeVars,
                   localVars, askVars>>

\* app_state.rs 117-119: channel.eof(), the command has ended and nothing is
\* left to read
ExecEof ==
    /\ xpc = "reading"
    /\ xin.fault # "read"
    /\ xout_pos = Len(xin.out)
    /\ xerr_pos = Len(xin.err)
    /\ xpc' = "closing"
    /\ UNCHANGED <<xin, xout_pos, xerr_pos, xstdout, xstderr, xres>>
    /\ UNCHANGED <<pipeVars, parserVars, registryVars, streamVars, bridgeVars,
                   localVars, askVars>>

\* app_state.rs 127-135: wait_close, exit_status and the result
ExecClose ==
    /\ xpc = "closing"
    /\ xres' = IF xin.fault \in {"close", "status"}
               THEN OutputErr(xin.fault)
               ELSE OutputOk(xstdout, xstderr, xin.exit[1])
    /\ xpc' = "returned"
    /\ UNCHANGED <<xin, xout_pos, xerr_pos, xstdout, xstderr>>
    /\ UNCHANGED <<pipeVars, parserVars, registryVars, streamVars, bridgeVars,
                   localVars, askVars>>

ExecNext ==
    \/ ExecLocal
    \/ ExecRemoteStart
    \/ ExecReadStdout
    \/ ExecReadStderr
    \/ ExecReadError
    \/ ExecEof
    \/ ExecClose

\* ------------------------------------------------------------------------
\* Local streaming run: the child's pipes and RunFlutter::process_output
\* ------------------------------------------------------------------------

\* most writes of the child in one run
MaxWrites == 3

\* the units a pipe holds before a write to it blocks
PipeCapacity == 2

\* the child's writes, each one unit to its stdout or to its stderr
ChildPlans == UNION {[1..n -> {"out", "err"}] : n \in 0..MaxWrites}

\* spawn_flutter_command: both streams piped, the child runs; process_output
\* starts process_lines on the stdout pipe
LocalInit ==
    /\ child_plan \in ChildPlans
    /\ child_pos = 0
    /\ child_pc = "running"
    /\ out_pipe = 0
    /\ err_pipe = 0
    /\ stdout_open = TRUE
    /\ lpc = "lines"

\* no local child, for the other specifications
LocalIdle ==
    /\ child_plan = <<>>
    /\ child_pos = 0
    /\ child_pc = "exited"
    /\ out_pipe = 0
    /\ err_pipe = 0
    /\ stdout_open = FALSE
    /\ lpc = "idle"

\* the stream the child writes to next
NextWrite == child_plan[child_pos + 1]

\* the child writes to stdout; the write blocks while the pipe is full
ChildWriteStdout ==
    /\ child_pc = "running"
    /\ child_pos < Len(child_plan)
    /\ NextWrite = "out"
    /\ stdout_open
    /\ out_pipe < PipeCapacity
    /\ out_pipe' = out_pipe + 1
    /\ child_pos' = child_pos + 1
    /\ UNCHANGED <<child_plan, child_pc, err_pipe, stdout_open, lpc>>
    /\ UNCHANGED <<pipeVars, parserVars, registryVars, streamVars, bridgeVars,
                   execVars, askVars>>

\* the child writes to stderr; the write blocks while the pipe is full
ChildWriteStderr ==
    /\ child_pc = "running"
    /\ child_pos < Len(child_plan)
    /\ NextWrite = "err"
    /\ err_pipe < PipeCapacity
    /\ err_pipe' = err_pipe + 1
    /\ child_pos' = child_pos + 1
    /\ UNCHANGED <<child_plan, child_pc, out_pipe, stdout_open, lpc>>
    /\ UNCHANGED <<pipeVars, parserVars, registryVars, streamVars, bridgeVars,
                   execVars, askVars>>

\* the child writes to the stdout pipe after its read end was closed and is
\* ended by SIGPIPE
ChildSigpipe ==
    /\ child_pc = "running"
    /\ child_pos < Len(child_plan)
    /\ NextWrite = "out"
    /\ ~stdout_open
    /\ child_pc' = "exited"
    /\ UNCHANGED <<child_plan, child_pos, out_pipe, err_pipe, stdout_open, lpc>>
    /\ UNCHANGED <<pipeVars, parserVars, registryVars, streamVars, bridgeVars,
                   execVars, askVars>>

\* the child has written everything and exits: its ends of the pipes close
ChildExit ==
    /\ child_pc = "running"
    /\ child_pos = Len(child_plan)
    /\ child_pc' = "exited"
    /\ UNCHANGED <<child_plan, child_pos, out_pipe, err_pipe, stdout_open, lpc>>
    /\ UNCHANGED <<pipeVars, parserVars, registryVars, streamVars, bridgeVars,
                   execVars, askVars>>

\* run_flutter.rs 320, 369: the line iterator of process_lines reads from
\* the stdout pipe
LocalReadLine ==
    /\ lpc = "lines"
    /\ out_pipe > 0
    /\ out_pipe' = out_pipe - 1
    /\ UNCHANGED <<child_plan, child_pos, child_pc, err_pipe, stdout_open, lpc>>
    /\ UNCHANGED <<pipeVars, parserVars, registryVars, streamVars, bridgeVars,
                   execVars, askVars>>

\* run_flutter.rs 370: `line?` returns from process_lines on a line that
\* cannot be decoded; the reader is dropped with what the pipe still holds
LocalLineError ==
    /\ lpc = "lines"
    /\ out_pipe > 0
    /\ out_pipe' = 0
    /\ stdout_open' = FALSE
    /\ lpc' = "wait"
    /\ UNCHANGED <<child_plan, child_pos, child_pc, err_pipe>>
    /\ UNCHANGED <<pipeVars, parserVars, registryVars, streamVars, bridgeVars,
                   execVars, askVars>>

\* the stdout pipe is empty and every write end is closed: the iterator
\* ends and process_lines returns
LocalStdoutEof ==
    /\ lpc = "lines"
    /\ out_pipe = 0
    /\ child_pc = "exited"
    /\ stdout_open' = FALSE
    /\ lpc' = "wait"
    /\ UNCHANGED <<child_plan, child_pos, child_pc, out_pipe, err_pipe>>
    /\ UNCHANGED <<pipeVars, parserVars, registryVars, streamVars, bridgeVars,
                   execVars, askVars>>

\* run_flutter.rs 321-323: wait_with_output reads the stderr pipe
WaitDrainStderr ==
    /\ lpc = "wait"
    /\ err_pipe > 0
    /\ err_pipe' = err_pipe - 1
    /\ UNCHANGED <<child_plan, child_pos, child_pc, out_pipe, stdout_open, lpc>>
    /\ UNCHANGED <<pipeVars, parserVars, registryVars, streamVars, bridgeVars,
                   execVars, askVars>>

\* wait_with_output returns: stderr is at its end and the child has exited
WaitReturn ==
    /\ lpc = "wait"
    /\ err_pipe = 0
    /\ child_pc = "exited"
    /\ lpc' = "returned"
    /\ UNCHANGED <<child_plan, child_pos, child_pc, out_pipe, err_pipe,
                   stdout_open>>
    /\ UNCHANGED <<pipeVars, parserVars, registryVars, streamVars, bridgeVars,
                   execVars, askVars>>

LocalNext ==
    \/ ChildWriteStdout
    \/ ChildWriteStderr
    \/ ChildSigpipe
    \/ ChildExit
    \/ LocalReadLine
    \/ LocalLineError
    \/ LocalStdoutEof
    \/ WaitDrainStderr
    \/ WaitReturn

\* ------------------------------------------------------------------------
\* Interactive prompts: OsUtils::ask called once per continuation request
\* ------------------------------------------------------------------------

\* most prompts of one run
MaxPrompts == 3

\* what the user types at a prompt
TypedTexts == InputValues \ {<<>>}

AskInit ==
    /\ asks = <<>>
    /\ stdin_buf = <<>>

\* no prompt yet
AskIdle == AskInit

\* the latest call of ask waits in recv_timeout
Waiting == asks # <<>> /\ asks[Len(asks)].state = "waiting"

\* no reader thread is inside stdin().read_line, which holds the lock of
\* stdin while it blocks
StdinFree == \A t \in 1..Len(asks) : asks[t].thread # "reading"

\* the line typed last is about to reach the latest call: its own thread is
\* the one that reads next
Imminent ==
    /\ stdin_buf # <<>>
    /\ \/ asks[Len(asks)].thread = "reading"
       \/ /\ asks[Len(asks)].thread = "spawned"
          /\ StdinFree
          /\ \A t \in 1..(Len(asks) - 1) : asks[t].thread # "spawned"

\* what process_user_input does with the outcome r of ask: the command is
\* composed from the value and executed (run_flutter.rs 560-574)
SendValue(r) == Append(dbus_cmds, dbus_method_continue_cmd(unwrap_or_default(r)))

\* os.rs 170-183: the prompt is printed and flushed, the channel made and
\* the reader thread spawned; a failed flush returns Err before that
AskStart ==
    /\ ~Waiting
    /\ Len(asks) < MaxPrompts
    /\ \E flush_ok \in BOOLEAN :
          IF flush_ok
          THEN /\ asks' = Append(asks, [state |-> "waiting", thread |-> "spawned",
                                        chan |-> <<>>, typed |-> <<>>,
                                        value |-> <<>>])
               /\ UNCHANGED dbus_cmds
          ELSE /\ asks' = Append(asks, [state |-> "flush_failed", thread |-> "none",
                                        chan |-> <<>>, typed |-> <<>>,
                                        value |-> <<>>])
               /\ dbus_cmds' = SendValue(Err)
    /\ UNCHANGED <<stdin_buf, breq, bpc, user_input, bres>>
    /\ UNCHANGED <<pipeVars, parserVars, registryVars, streamVars, execVars,
                   localVars>>

\* os.rs 180: a reader thread enters read_line and takes the lock of stdin
ReaderLock ==
    /\ StdinFree
    /\ \E t \in 1..Len(asks) :
          /\ asks[t].thread = "spawned"
          /\ asks' = [asks EXCEPT ![t].thread = "reading"]
    /\ UNCHANGED <<stdin_buf, bridgeVars>>
    /\ UNCHANGED <<pipeVars, parserVars, registryVars, streamVars, execVars,
                   localVars>>

\* os.rs 180-182: read_line returns a line, the thread sends it trimmed and
\* ends; `let _ = tx.send(..)` loses it when the receiver is gone
ReaderRead ==
    /\ stdin_buf # <<>>
    /\ \E t \in 1..Len(asks) :
          /\ asks[t].thread = "reading"
          /\ asks' = [asks EXCEPT
                         ![t].thread = "done",
                         ![t].chan = IF asks[t].state = "waiting"
                                     THEN <<Trim(Head(stdin_buf))>> ELSE <<>>]
    /\ stdin_buf' = Tail(stdin_buf)
    /\ UNCHANGED bridgeVars
    /\ UNCHANGED <<pipeVars, parserVars, registryVars, streamVars, execVars,
                   localVars>>

\* the user answers the prompt on the screen, once, within its window
UserTypes ==
    /\ Waiting
    /\ asks[Len(asks)].typed = <<>>
    /\ \E text \in TypedTexts :
          /\ stdin_buf' = Append(stdin_buf, text)
          /\ asks' = [asks EXCEPT ![Len(asks)].typed = <<text>>]
    /\ UNCHANGED bridgeVars
    /\ UNCHANGED <<pipeVars, parserVars, registryVars, streamVars, execVars,
                   localVars>>

\* os.rs 185-186: recv_timeout returns the line; the command is sent
AskReceive ==
    /\ Waiting
    /\ asks[Len(asks)].chan # <<>>
    /\ asks' = [asks EXCEPT ![Len(asks)].state = "answered",
                            ![Len(asks)].value = asks[Len(asks)].chan[1],
                            ![Len(asks)].chan = <<>>]
    /\ dbus_cmds' = SendValue(Ok(asks[Len(asks)].chan[1]))
    /\ UNCHANGED <<stdin_buf, breq, bpc, user_input, bres>>
    /\ UNCHANGED <<pipeVars, parserVars, registryVars, streamVars, execVars,
                   localVars>>

\* os.rs 187-190: thirty seconds pass without a message: the empty string
\* is returned, the receiver dropped and the command sent; the reader
\* thread stays where it is
AskTimeout ==
    /\ Waiting
    /\ asks[Len(asks)].chan = <<>>
    /\ ~Imminent
    /\ asks' = [asks EXCEPT ![Len(asks)].state = "timeout"]
    /\ dbus_cmds' = SendValue(Ok(<<>>))
    /\ UNCHANGED <<stdin_buf, breq, bpc, user_input, bres>>
    /\ UNCHANGED <<pipeVars, parserVars, registryVars, streamVars, execVars,
                   localVars>>

AskNext ==
    \/ AskStart
    \/ ReaderLock
    \/ ReaderRead
    \/ UserTypes
    \/ AskReceive
    \/ AskTimeout

\* ------------------------------------------------------------------------
\* Specifications
\* ------------------------------------------------------------------------

PipeNext ==
    \/ LoadFeatures
    \/ HookStep
    \/ PhaseOk
    \/ RunTests
    \/ TerminateBeforePost
    \/ TerminateAfterPost
    \/ WorkerReport
    \/ Signal
    \/ MainRecv
    \/ MainSetRunning
    \/ MainTerminate

vars == <<pipeVars, parserVars, registryVars, streamVars, bridgeVars,
          execVars, localVars, askVars>>

Init == PipeInit /\ ParserIdle /\ RegistryIdle /\ StreamIdle
    /\ BridgeIdle /\ ExecIdle /\ LocalIdle /\ AskIdle

Next == PipeNext

\* the run of main: worker, signal thread and coordinator
Spec == Init /\ [][Next]_vars

InitParser == PipeIdle /\ ParserInit /\ RegistryIdle /\ StreamIdle
    /\ BridgeIdle /\ ExecIdle /\ LocalIdle /\ AskIdle

\* process_lines over every bounded line sequence
ParserSpec == InitParser /\ [][ParserNext]_vars

InitRunner == PipeIdle /\ RunnerInit /\ RegistryIdle /\ StreamIdle
    /\ BridgeIdle /\ ExecIdle /\ LocalIdle /\ AskIdle

\* RunFlutter::run from the start of the stream on either target, then the
\* Finished hook that reads the Results
RunnerSpec == InitRunner /\ [][RunnerNext]_vars

InitRegistry == PipeIdle /\ ParserIdle /\ RegistryInit /\ StreamIdle
    /\ BridgeIdle /\ ExecIdle /\ LocalIdle /\ AskIdle

\* the registry used by the worker and by main's signal arm
RegistrySpec == InitRegistry /\ [][RegistryNext]_vars

InitStream == PipeIdle /\ ParserIdle /\ RegistryIdle /\ StreamInit
    /\ BridgeIdle /\ ExecIdle /\ LocalIdle /\ AskIdle

\* the reader thread over every bounded byte stream in every chunking
StreamSpec == InitStream /\ [][StreamNext]_vars

\* the same with a reader thread that keeps running once it has left its
\* loop and a consumer that keeps calling next while it holds the iterator
StreamLiveSpec ==
    /\ InitStream
    /\ [][StreamNext]_vars
    /\ WF_vars(FlushRemainder)
    /\ WF_vars(IteratorNext)
    /\ WF_vars(IteratorEnd)

InitBridge ==
    PipeIdle /\ ParserIdle /\ RegistryIdle /\ StreamIdle /\ BridgeInit /\ ExecIdle
    /\ LocalIdle /\ AskIdle

\* one call of process_user_input in every environment
BridgeSpec == InitBridge /\ [][BridgeNext]_vars

InitExec ==
    PipeIdle /\ ParserIdle /\ RegistryIdle /\ StreamIdle /\ BridgeIdle /\ ExecInit
    /\ LocalIdle /\ AskIdle

\* one synchronous execute on either target, for every output and fault
ExecSpec == InitExec /\ [][ExecNext]_vars

InitLocal ==
    PipeIdle /\ ParserIdle /\ RegistryIdle /\ StreamIdle /\ BridgeIdle /\ ExecIdle
    /\ LocalInit /\ AskIdle

\* one local streaming run for every order of the child's writes
LocalSpec == InitLocal /\ [][LocalNext]_vars

InitAsk ==
    PipeIdle /\ ParserIdle /\ RegistryIdle /\ StreamIdle /\ BridgeIdle /\ ExecIdle
    /\ LocalIdle /\ AskInit

\* the prompts of one run, one after the other, and a user who answers them
AskSpec == InitAsk /\ [][AskNext]_vars

\* ------------------------------------------------------------------------
\* Hook pipeline: properties
\* ------------------------------------------------------------------------

IsHookRun(e) == e.kind = "hook"
IsFailedRun(e) == e.kind = "hook" /\ ~e.ok
IsTestsRun(e) == e.kind = "tests"
IsHookError(e) == e.kind \in {"Pre-hook error", "Post-hook"}

HookRuns == SelectSeq(trace, IsHookRun)
FailedRuns == SelectSeq(trace, IsFailedRun)
HookErrorEntries == SelectSeq(results_error, IsHookError)

\* the indices of the hooks run so far, in execution order
executed == [k \in 1..Len(HookRuns) |-> HookRuns[k].hook]
ExecutedSet == {executed[k] : k \in 1..Len(executed)}
FailedSet == {FailedRuns[k].hook : k \in 1..Len(FailedRuns)}

PhaseRank(t) ==
    CASE t = "Connect" -> 1
      [] t = "VerifySystem" -> 2
      [] t = "PrepareSystem" -> 3
      [] t = "Finished" -> 4

TypeOf(h) == hooks[h].hook_type
Tolerant(h) == hooks[h].continue_on_error
HookIds == 1..Len(hooks)

\* the first hook of its phase that has continue_on_error = true
FirstTolerantOfPhase(j) ==
    /\ Tolerant(j)
    /\ \A i \in HookIds : (i < j /\ TypeOf(i) = TypeOf(j)) => ~Tolerant(i)

\* C1: the hooks executed so far appear in the order Connect, VerifySystem,
\* PrepareSystem, Finished, and within one phase in configured list order;
\* no hook of a later phase runs before a hook of an earlier phase.
C1_PhaseOrder ==
    \A a, b \in 1..Len(executed) :
        a < b =>
            \/ PhaseRank(TypeOf(executed[a])) < PhaseRank(TypeOf(executed[b]))
            \/ /\ TypeOf(executed[a]) = TypeOf(executed[b])
               /\ executed[a] < executed[b]

\* three hooks have run, one of them before a hook that precedes it in the
\* configured list, and two of them in the same phase
C1_Witness ==
    /\ Len(executed) = 3
    /\ \E a, b \in 1..3 : a < b /\ executed[a] > executed[b]
    /\ \E a, b \in 1..3 : a < b /\ TypeOf(executed[a]) = TypeOf(executed[b])

\* C2: once execute has returned, if a VerifySystem hook with
\* continue_on_error = false failed, then no hook with continue_on_error =
\* false of VerifySystem or PrepareSystem ran after it, and every Finished
\* hook with continue_on_error = true was executed.
C2_ContinueOnError ==
    pc = "done" =>
        \A k \in 1..Len(trace) :
            ( /\ IsFailedRun(trace[k])
              /\ TypeOf(trace[k].hook) = "VerifySystem"
              /\ ~Tolerant(trace[k].hook) )
            => /\ \A m \in 1..Len(trace) :
                     ( /\ m > k
                       /\ IsHookRun(trace[m])
                       /\ TypeOf(trace[m].hook) \in {"VerifySystem", "PrepareSystem"} )
                     => Tolerant(trace[m].hook)
               /\ \A j \in HookIds :
                     (TypeOf(j) = "Finished" /\ Tolerant(j)) => j \in ExecutedSet

\* C3: once execute has returned, for every hook that failed, the hooks
\* after it in the same phase that have continue_on_error = true were
\* executed.
C3_TolerantHooksOfFailedPhaseRun ==
    pc = "done" =>
        \A i, j \in HookIds :
            ( /\ i \in FailedSet
              /\ i < j
              /\ TypeOf(i) = TypeOf(j)
              /\ Tolerant(j) )
            => j \in ExecutedSet

NoPreHookFailed == \A i \in FailedSet : TypeOf(i) = "Finished"

\* C4: in every run that loaded its features, in which no pre-phase hook
\* failed and no signal was delivered, the test step has run exactly once
\* when execute returns, after every pre-phase hook and before every
\* Finished hook.
C4_TestStepRunsOnce ==
    ( /\ pc = "done"
      /\ res # "err_load"
      /\ NoPreHookFailed
      /\ ~signal_sent )
    => /\ Len(SelectSeq(trace, IsTestsRun)) = 1
       /\ \A a, b \in 1..Len(trace) :
             (IsTestsRun(trace[a]) /\ IsHookRun(trace[b]))
             => (b < a <=> TypeOf(trace[b].hook) # "Finished")

\* C5: once execute has returned without a signal, if a pre-phase hook
\* failed, every later pre-phase was entered (its first tolerant hook ran),
\* the Finished phase ran (its first tolerant hook ran) and the test step
\* was skipped.
C5_LaterPhasesEntered ==
    (pc = "done" /\ res # "err_load" /\ ~signal_sent) =>
        \A i \in FailedSet :
            TypeOf(i) # "Finished" =>
                /\ \A j \in HookIds :
                      ( /\ PhaseRank(TypeOf(j)) > PhaseRank(TypeOf(i))
                        /\ FirstTolerantOfPhase(j) )
                      => j \in ExecutedSet
                /\ SelectSeq(trace, IsTestsRun) = <<>>

C7_TolerantFailureNotFatal ==
    (res # "err_load" /\ \A i \in FailedSet : Tolerant(i)) => ~has_error

\* C7 (amended): a hook failure raises has_error whether or not the failing
\* hook has continue_on_error = true: after any failed hook run, only hooks
\* with continue_on_error = true run and the test step does not run.
C7_AnyFailureRaisesHasError ==
    /\ (res # "err_load" /\ FailedRuns # <<>>) => has_error
    /\ \A a, b \in 1..Len(trace) :
          (a < b /\ IsFailedRun(trace[a])) =>
              /\ ~IsTestsRun(trace[b])
              /\ IsHookRun(trace[b]) => Tolerant(trace[b].hook)

\* a hook with continue_on_error = true failed in a pre-phase, and a later
\* hook without it was skipped for that
C7_Witness ==
    /\ pc = "done"
    /\ res # "err_load"
    /\ \E i \in FailedSet :
          /\ Tolerant(i)
          /\ TypeOf(i) # "Finished"
          /\ \E j \in HookIds :
                /\ ~Tolerant(j)
                /\ TypeOf(j) = "Finished"
                /\ j \notin ExecutedSet

\* ------------------------------------------------------------------------
\* Output parser: properties
\* ------------------------------------------------------------------------

\* kind and test name of every event, in order
EventNames(evs) == [k \in 1..Len(evs) |-> <<evs[k].ev, evs[k].name>>]

IsTerminalEvent(e) == e.ev \in {"Passed", "Failed"}

\* the line has the shape of a progress line
IsProgressText(raw) ==
    LET line == Trim(raw)
        split == SplitOnce(Trim(StripPrefixOr(line, FlutterPrefix)), " ")
    IN /\ ~IsNoise(line)
       /\ split # <<>>
       /\ ~Contains(split[2], ErrorTag)
       /\ IsProgressRest(split[2])

\* the input with its i-th line repeated directly after itself
InsertDup(ids, i) == SubSeq(ids, 1, i) \o <<ids[i]>> \o SubSeq(ids, i + 1, Len(ids))

C9_CountersMonotonic ==
    /\ [][ /\ parser'.passed >= parser.passed
           /\ parser'.failed >= parser.failed
           /\ parser'.results_passed >= parser.results_passed
           /\ parser'.results_failed >= parser.results_failed ]_vars
    /\ [](ppc = "done" =>
             /\ results.total = parser.passed + parser.failed
             /\ results.total = parser.results_passed + parser.results_failed)

\* a stream has ended with tests passed and tests failed
C9_Witness == ppc = "done" /\ parser.passed >= 1 /\ parser.failed >= 1

\* C10: for every progress line of the input, the input with that line
\* repeated directly after itself parses to the same events and the same
\* final counters as the input itself.
C10_DuplicateIgnored ==
    ppc = "done" =>
        \A i \in 1..Len(input) :
            IsProgressText(LineTable[input[i]]) =>
                LET d == ParseAll(ParserStart, TextOf(InsertDup(input, i))) IN
                    /\ d.events = parser.events
                    /\ d.passed = parser.passed
                    /\ d.failed = parser.failed
                    /\ TotalOf(d.passed, d.failed) = results.total

\* the stream held a progress line that reported a pass or a failure, and
\* directly after it the same line again
C10_Witness ==
    /\ ppc = "done"
    /\ \E i \in 1..(Len(input) - 1) :
          /\ input[i + 1] = input[i]
          /\ IsProgressText(LineTable[input[i]])
          /\ LET before == ParseAll(ParserStart, TextOf(SubSeq(input, 1, i - 1)))
                 after == ParseAll(ParserStart, TextOf(SubSeq(input, 1, i)))
             IN Len(SelectSeq(after.events, IsTerminalEvent))
                   > Len(SelectSeq(before.events, IsTerminalEvent))

\* C11: process_lines returns only when the line iterator has ended (or a
\* read has failed); when it has ended, Results.total, the start and end
\* time and the full log of every line are stored by the time the result
\* exists, and the result is the error "Some tests failed" if and only if
\* failed > 0 at stream end, Ok otherwise.
C11_FinalizedThenReturned ==
    /\ (pres = "none") <=> (ppc = "reading")
    /\ ppc = "done" =>
          /\ next_line = Len(input) + 1
          /\ results.total = parser.passed + parser.failed
          /\ results.time_set
          /\ results.full_log = parser.full_test_output
          /\ Len(results.full_log) = Len(input)
          /\ (pres = "err_some_tests_failed") <=> (parser.failed > 0)
          /\ (pres = "ok") <=> (parser.failed = 0)

\* a stream of at least two lines has ended with a failed test and the
\* error "Some tests failed"
C11_Witness ==
    /\ ppc = "done"
    /\ pres = "err_some_tests_failed"
    /\ parser.failed > 0
    /\ Len(results.full_log) >= 2

IsError(r) == r \notin {"none", "ok"}

\* C12: when RunFlutter::run has returned after the line stream ended, its
\* result is an error if the parser counted a failure, and also if the
\* test-driver process ended with a non-zero exit status while the parser
\* counted none, on the local and on the remote target alike.
C12_RunnerReportsFailures ==
    (run_res # NotReturned /\ ppc = "done") =>
        /\ parser.failed > 0 => IsError(run_res.result)
        /\ (parser.failed = 0 /\ ~run_res.success) => IsError(run_res.result)

\* C14: the Results a Finished hook reads have total = passed + failed,
\* also when the line stream was aborted by a read error.
C14_FinishedHookReadsFinalizedResults ==
    \A k \in 1..Len(finished_read) :
        finished_read[k].total = finished_read[k].passed + finished_read[k].failed

Returned(k) == calls[k].result # "running"

KillIssuedFor(id) == \E j \in 1..Len(remote_kills) : remote_kills[j].cmd = id

NoDuplicates(q) == \A a, b \in 1..Len(q) : a # b => q[a] # q[b]

\* C15: when a terminate_all_cmds call has returned, no entry it found in
\* the two registries is registered any more, every local child it found
\* has been killed, and a kill command has been issued for every remote
\* entry it found, also for those behind an entry whose kill failed.
C15_TerminateAllReachesEveryEntry ==
    \A k \in 1..Len(calls) :
        Returned(k) =>
            /\ \A id \in Range(calls[k].locals) :
                  /\ id \notin Range(RUNNING_CMDS)
                  /\ id \in Range(kills)
                  /\ id \notin alive
            /\ \A id \in Range(calls[k].remotes) :
                  /\ id \notin Range(RUNNING_REMOTE_CMDS)
                  /\ KillIssuedFor(id)

\* a step of a terminate_all_cmds call that is under way
CallStep == LockLocal \/ TerminateLocal \/ LockRemote \/ TerminateRemote

\* C16: under every interleaving of the calls of main and of the worker,
\* each tracked child is killed at most once and each remote entry gets at
\* most one kill command, each by the one call that drained it; a call
\* that finds both registries empty kills nothing and returns Ok; a call
\* fails only when a kill command of its own failed; each lock has one
\* holder, and while a call is under way some call can take its next step.
C16_TerminateAllReentrant ==
    /\ NoDuplicates(kills)
    /\ NoDuplicates([j \in 1..Len(remote_kills) |-> remote_kills[j].cmd])
    /\ \A id \in Range(kills) :
          Cardinality({k \in 1..Len(calls) : id \in Range(calls[k].locals)}) = 1
    /\ \A j \in 1..Len(remote_kills) :
          Cardinality({k \in 1..Len(calls) :
                          remote_kills[j].cmd \in Range(calls[k].remotes)}) = 1
    /\ \A k \in 1..Len(calls) :
          /\ (Returned(k) /\ calls[k].locals = <<>> /\ calls[k].remotes = <<>>)
                => calls[k].result = "ok"
          /\ calls[k].result = "err" =>
                \E j \in 1..Len(remote_kills) :
                    /\ remote_kills[j].cmd \in Range(calls[k].remotes)
                    /\ ~remote_kills[j].ok
    /\ \A t \in Threads :
          /\ (lock_holder.local = t) <=> (tpc[t] = "drain_local")
          /\ (lock_holder.remote = t) <=> (tpc[t] = "drain_remote")
    /\ (Alive /\ \E t \in Threads : tpc[t] # "idle") => ENABLED CallStep

\* a call of one thread drained a child and is still under way while a call
\* of the other thread, started after it, found both registries empty and
\* has returned Ok
C16_Witness ==
    \E k, j \in 1..Len(calls) :
        /\ k < j
        /\ calls[k].by # calls[j].by
        /\ calls[k].locals # <<>>
        /\ calls[k].result = "running"
        /\ calls[j].locals = <<>>
        /\ calls[j].remotes = <<>>
        /\ calls[j].result = "ok"

IsTerminateAll(e) == e.kind = "terminate_all"

IsFinishedRun(e) == e.kind = "hook" /\ TypeOf(e.hook) = "Finished"

C19_FirstMessageDecides ==
    /\ Len(outcome) <= 1
    /\ (outcome = <<>>) <=> (main_pc = "recv")
    /\ outcome # <<>> =>
          /\ outcome[1] = sent[1]
          /\ chan = SubSeq(sent, 2, Len(sent))
    /\ main_pc \in {"set_running", "terminate"} => outcome = <<"signal">>
    /\ main_pc = "exited" =>
          ( (\E k \in 1..Len(trace) :
                IsTerminateAll(trace[k]) /\ trace[k].by = "main")
            <=> outcome = <<"signal">> )

\* main has returned on the signal arm although the worker's message was
\* sent before main returned
C19_Witness ==
    /\ main_pc = "exited"
    /\ outcome = <<"signal">>
    /\ Len(sent) = 2
    /\ sent[2] \in {"done", "error"}

\* ------------------------------------------------------------------------
\* Remote line stream: properties
\* ------------------------------------------------------------------------

\* the positions of the newlines of bs, in increasing order
NewlineIndices(bs) ==
    LET nl == {i \in 1..Len(bs) : bs[i] = Newline}
    IN [k \in 1..Cardinality(nl) |->
           CHOOSE i \in nl : Cardinality({j \in nl : j < i}) = k - 1]

\* the newline-separated segments of bs: the bytes before each newline,
\* from the byte behind the newline before it, and a non-empty remainder
\* behind the last newline
Segments(bs) ==
    LET at == NewlineIndices(bs)
        n == Len(at)
        from(k) == IF k = 1 THEN 1 ELSE at[k - 1] + 1
        complete == [k \in 1..n |-> SubSeq(bs, from(k), at[k] - 1)]
        last == IF n = 0 THEN 0 ELSE at[n]
    IN IF last < Len(bs)
       THEN Append(complete, SubSeq(bs, last + 1, Len(bs)))
       ELSE complete

\* the bytes channel.read has handed to the reader thread
Delivered == SubSeq(bytes, 1, read_pos)

IsPrefix(p, q) == Len(p) <= Len(q) /\ p = SubSeq(q, 1, Len(p))

\* C20: whatever the bytes and however they are cut into chunks, the lines
\* yielded and the lines still in the channel are, in order, the first
\* newline-separated segments of the bytes delivered; once the reader
\* thread has ended and the channel is empty the lines yielded to a caller
\* that kept the iterator are exactly all of them, a non-empty remainder
\* without newline being the last; the bytes abc, newline, def, newline, gh
\* yield abc, def, gh.
C20_LinesAreSegments ==
    /\ IsPrefix(lines_out \o tx, Segments(Delivered))
    /\ (rpc = "closed" /\ tx = <<>> /\ ~rx_dropped)
          => lines_out = Segments(Delivered)
    /\ (rpc = "closed" /\ tx = <<>> /\ ~rx_dropped /\ bytes = SampleBytes
           /\ read_pos = Len(bytes))
          => lines_out = << <<97, 98, 99>>, <<100, 101, 102>>, <<103, 104>> >>

\* every segment of the stream is valid UTF-8
AllSegmentsValid ==
    \A k \in 1..Len(Segments(bytes)) : from_utf8_ok(Segments(bytes)[k])

\* the lines of a stream whose segments are all valid UTF-8 are its segments
StreamOfValidLines ==
    AllSegmentsValid =>
        /\ IsPrefix(lines_out \o tx, Segments(Delivered))
        /\ (rpc = "closed" /\ tx = <<>> /\ ~rx_dropped /\ read_pos = Len(bytes))
              => lines_out = Segments(bytes)

\* ------------------------------------------------------------------------
\* Remote line stream: cancellation
\* ------------------------------------------------------------------------

\* C21: a stream is cancelled by dropping it: once the caller has dropped
\* the line sequence the reader thread stops without waiting for the remote
\* command to reach EOF; at the latest the first line it cannot send any
\* more makes it leave its read loop.
C21_DropStopsProducer ==
    refused # <<>> => rpc # "reading"

\* ------------------------------------------------------------------------
\* Process registry: asynchronous custom hooks
\* ------------------------------------------------------------------------

\* command id is in a registry, or a terminate_all_cmds call has taken it
\* out of one
Registered(id) ==
    \/ id \in Range(RUNNING_CMDS) \cup Range(RUNNING_REMOTE_CMDS)
    \/ \E k \in 1..Len(calls) :
          id \in Range(calls[k].locals) \cup Range(calls[k].remotes)

\* C26: every process an asynchronous custom hook starts, local or remote,
\* is registered with the registry when it is started, so that a later
\* terminate_all_cmds reaches it.
C26_AsyncHookProcessesRegistered ==
    \A id \in hook_cmds : Registered(id)

\* what track_cmd and track_remote_cmd are given is registered
TrackedAreRegistered ==
    \A id \in 1..spawned : id \notin hook_cmds => Registered(id)

\* ------------------------------------------------------------------------
\* Coordinator: exit status
\* ------------------------------------------------------------------------

\* main.rs 102-118: the value main returns after the arm of the message it
\* matched on: every arm only logs, then main ends with Ok(())
main_result(message) == "ok"

\* the exit status of the process for the value main returns
exit_code(result) == IF result = "ok" THEN 0 ELSE 1

\* C25: the process exit reflects the outcome of the run: the exit status
\* main returns after a run in which hooks or tests failed (the worker
\* reported "error") or that was cancelled (a signal came first) differs
\* from the exit status of a run that completed cleanly ("done").
C25_ExitReflectsOutcome ==
    (main_pc = "exited" /\ outcome # <<>> /\ outcome[1] \in {"error", "signal"})
        => exit_code(main_result(outcome[1])) # exit_code(main_result("done"))

\* ------------------------------------------------------------------------
\* Output parser: errors
\* ------------------------------------------------------------------------

\* the lines process_lines has consumed
Consumed == SubSeq(input, 1, next_line - 1)

\* the locals without the history of bridge calls
WithoutBridge(p) == [p EXCEPT !.bridge = <<>>]

\* C22: a failure inside the input bridge never aborts the parser: the loop
\* is left early only by a read error, and whatever the outcomes of the
\* bridge calls, at stream end every line has been consumed, the locals of
\* process_lines are those of a run whose bridge calls all succeeded, and
\* the result is decided by the failed counter alone.
C22_BridgeFailureNotFatal ==
    /\ ppc = "aborted" => pres = "err_read"
    /\ ppc = "reading" => pres = "none"
    /\ ppc = "done" =>
          /\ next_line = Len(input) + 1
          /\ WithoutBridge(parser) =
                WithoutBridge(ParseAll(ParserStart, TextOf(Consumed)))
          /\ pres = (IF parser.failed > 0 THEN "err_some_tests_failed" ELSE "ok")

\* the bridge failed on the second line, the third line was parsed and made
\* the first test pass, and process_lines returned Ok
C22_Witness ==
    /\ input = <<1, 9, 2>>
    /\ ppc = "done"
    /\ pres = "ok"
    /\ Len(parser.bridge) = 1
    /\ ~parser.bridge[1].ok
    /\ parser.passed = 1

\* C24: parse anomalies are never fatal: no malformed, unrecognized or
\* undecodable line makes process_lines return an error or stop before the
\* stream ends; the only error it returns because of line content is
\* "Some tests failed", at stream end.
C24_ParseAnomaliesNotFatal ==
    /\ pres \in {"none", "ok", "err_some_tests_failed"}
    /\ ppc \in {"reading", "done"}
    /\ pres # "none" => next_line = Len(input) + 1

\* ------------------------------------------------------------------------
\* Output parser: progress lines and continuation requests
\* ------------------------------------------------------------------------

\* the counters and the name a progress line carries
CountersOf(raw) ==
    LET split == SplitOnce(Trim(StripPrefixOr(Trim(raw), FlutterPrefix)), " ")
        parts == SplitOnce(split[2], ":")
        tokens == SplitWhitespace(Trim(parts[1]))
    IN [P |-> IF Len(tokens) >= 1 THEN ParseCount(tokens[1]) ELSE 0,
        F |-> IF Len(tokens) >= 2 THEN ParseCount(tokens[2]) ELSE 0,
        name |-> Trim(parts[2])]

\* the line process_lines reads next
NextRaw == LineTable[input[next_line]]

\* the locals after the next line
AfterNext == process_line(parser, NextRaw, TRUE)

\* the events the next line adds
NewEvents == SubSeq(AfterNext.events, Len(parser.events) + 1, Len(AfterNext.events))

\* the next line is a progress line with an unseen name, read while a
\* current test is set
ProgressLineIsNext ==
    /\ ppc = "reading"
    /\ next_line <= Len(input)
    /\ IsProgressText(NextRaw)
    /\ ~HandedToBridge(parser, NextRaw)
    /\ ~PrevSeen(parser.prev_test_names, CountersOf(NextRaw).name)
    /\ parser.current_test # <<>>

FailedEmitted ==
    \E k \in 1..Len(NewEvents) :
        NewEvents[k] = Failed(parser.current_test[1], parser.current_test_output)

PassedEmitted ==
    \E k \in 1..Len(NewEvents) : NewEvents[k] = Passed(parser.current_test[1])

\* C29: on a non-duplicate progress line with counters P and F, read while
\* a current test is set, a Failed event for the current test is emitted
\* and failed goes up by one exactly when F is greater than the running
\* failed counter, and a Passed event is emitted and passed goes up by one
\* exactly when P is greater than the running passed counter; a counter
\* lower than or equal to the running one emits no such event.
C29_EventOnIncreaseOnly ==
    ProgressLineIsNext =>
        /\ FailedEmitted <=> CountersOf(NextRaw).F > parser.failed
        /\ AfterNext.failed =
              parser.failed + (IF CountersOf(NextRaw).F > parser.failed THEN 1 ELSE 0)
        /\ PassedEmitted <=> CountersOf(NextRaw).P > parser.passed
        /\ AfterNext.passed =
              parser.passed + (IF CountersOf(NextRaw).P > parser.passed THEN 1 ELSE 0)

\* a counter above the running one emits the event and adds one, a counter
\* equal to the running one emits nothing
EventOnIncrease ==
    ProgressLineIsNext =>
        /\ CountersOf(NextRaw).F > parser.failed =>
              FailedEmitted /\ AfterNext.failed = parser.failed + 1
        /\ CountersOf(NextRaw).P > parser.passed =>
              PassedEmitted /\ AfterNext.passed = parser.passed + 1
        /\ CountersOf(NextRaw).F = parser.failed =>
              ~FailedEmitted /\ AfterNext.failed = parser.failed
        /\ CountersOf(NextRaw).P = parser.passed =>
              ~PassedEmitted /\ AfterNext.passed = parser.passed

\* the locals of process_lines before the k-th line of the input
Before(k) == ParseAll(ParserStart, TextOf(SubSeq(input, 1, k - 1)))

\* the k-th line, trimmed
LineAt(k) == Trim(LineTable[input[k]])

\* the locals after the k-th line
After(k) == process_line(Before(k), LineTable[input[k]], TRUE)

\* the k-th line matches the continuation pattern (and is not a banner)
IsContinuationLine(k) ==
    /\ ~IsNoise(LineAt(k))
    /\ identify_continue_request(LineAt(k)) # <<>>

\* the k-th line went to the bridge and did nothing else: it joined the
\* full log, and no event, counter, name or test output changed
DelegatedAndSkipped(k) ==
    /\ Len(After(k).bridge) = Len(Before(k).bridge) + 1
    /\ After(k).bridge[Len(After(k).bridge)].input =
          identify_continue_request(LineAt(k))[1]
    /\ [After(k) EXCEPT !.bridge = Before(k).bridge] =
          [Before(k) EXCEPT !.full_test_output = Append(@, LineAt(k))]

\* C30: every line that matches the continuation pattern is delegated to
\* the input bridge and then skipped, whether or not a current test is set:
\* it is never processed as a progress line and never appended to a test's
\* accumulated output.
C30_ContinuationDelegatedAndSkipped ==
    \A k \in 1..(next_line - 1) :
        IsContinuationLine(k) => DelegatedAndSkipped(k)

\* while a current test is set a continuation line is delegated and skipped
ContinuationDelegatedInTest ==
    \A k \in 1..(next_line - 1) :
        (IsContinuationLine(k) /\ Before(k).current_test # <<>>)
            => DelegatedAndSkipped(k)

\* ------------------------------------------------------------------------
\* Interactive input bridge: properties
\* ------------------------------------------------------------------------

\* the value a continuation command has to carry: the one the provider
\* handed out, the empty string when it failed or timed out
ExpectedPayload(req) ==
    IF req.gmail
    THEN (IF regex_compiles(req.regex) /\ req.fetch.ok
          THEN req.fetch.value ELSE <<>>)
    ELSE (IF req.flush_ok /\ req.typed.arrives
          THEN Trim(req.typed.text) ELSE <<>>)

\* the call has returned after exactly one continuation command, which
\* carries the expected value
SentOnce ==
    /\ Len(dbus_cmds) = 1
    /\ dbus_cmds[1] = dbus_method_continue_cmd(ExpectedPayload(breq))
    /\ PayloadOf(dbus_cmds[1]) = ExpectedPayload(breq)

\* C23: for every continuation request handed to the bridge a continuation
\* command is composed and executed exactly once, carrying the obtained
\* value, or the empty string when obtaining the value failed or timed out;
\* no failure while obtaining the value leaves the request without one.
C23_ContinuationAlwaysSent ==
    /\ Len(dbus_cmds) <= 1
    /\ bpc = "returned" => SentOnce

\* a call whose pattern compiles, or that prompts, sends exactly one command
SentOnceWhenPatternCompiles ==
    (bpc = "returned" /\ ~ObtainFails(breq)) => SentOnce

\* ------------------------------------------------------------------------
\* Synchronous execute: properties
\* ------------------------------------------------------------------------

FailureKinds == {"connection", "handshake", "authentication", "spawn", "read"}

\* C27: a synchronous execute whose command ends with a non-zero exit code
\* returns a normal result that carries that code (-1 for a local child
\* killed by a signal); an error is returned exactly when a step of the
\* execute itself failed, and every such failure is a connection,
\* handshake, authentication, spawn or read failure.
C27_NonZeroExitIsNotAnError ==
    xpc = "returned" =>
        /\ xres.ok <=> xin.fault = "none"
        /\ xres.ok =>
              xres.status = (IF xin.exit = <<>> THEN 0 - 1 ELSE xin.exit[1])
        /\ ~xres.ok =>
              /\ xres.error = xin.fault
              /\ FaultKind(xin.fault) \in FailureKinds

\* a local command has exited with code 1 and the execute returned Ok with
\* status 1
C27_Witness ==
    /\ xpc = "returned"
    /\ xin.target = "local"
    /\ xin.exit = <<1>>
    /\ xres.ok
    /\ xres.status = 1

\* a remote command has exited with code 255 and the execute returned Ok
\* with status 255
RemoteNonZeroReturned ==
    /\ xpc = "returned"
    /\ xin.target = "remote"
    /\ xres.ok
    /\ xres.status = 255

\* what the command wrote, as text
Written(bs) == from_utf8_lossy(bs)

\* C28: a local synchronous execute waits for the child and collects both
\* streams: the stdout and stderr fields of the CommandOutput returned
\* equal what the command wrote to its standard output and standard error.
C28_LocalExecuteCollectsStreams ==
    (xpc = "returned" /\ xin.target = "local" /\ xres.ok) =>
        /\ xres.stdout = Written(xin.out)
        /\ xres.stderr = Written(xin.err)

\* the remote execute collects both streams of a command that writes ASCII
RemoteExecuteCollectsAscii ==
    (xpc = "returned" /\ xin.target = "remote" /\ xres.ok
       /\ \A k \in 1..Len(xin.out) : xin.out[k] < 128) =>
        /\ xres.stdout = Written(xin.out)
        /\ xres.stderr = Written(xin.err)

\* ------------------------------------------------------------------------
\* Output parser: pseudo-tests and terminal events
\* ------------------------------------------------------------------------

\* the name begins with "("
IsPseudoName(name) == StartsWith(name, <<"(">>)

\* the next line is a progress line with an unseen name that begins with "("
PseudoTestIsNext ==
    /\ ppc = "reading"
    /\ next_line <= Len(input)
    /\ IsProgressText(NextRaw)
    /\ ~HandedToBridge(parser, NextRaw)
    /\ ~PrevSeen(parser.prev_test_names, CountersOf(NextRaw).name)
    /\ IsPseudoName(CountersOf(NextRaw).name)

\* C31: a progress line whose name begins with "(" never starts a test:
\* once its counters are processed no test is current and the line has
\* added no Started event, and no event of any kind ever carries a name
\* that begins with "(", nor does the current test.
C31_PseudoTestNeverStarts ==
    /\ PseudoTestIsNext =>
          /\ AfterNext.current_test = <<>>
          /\ \A k \in 1..Len(NewEvents) : NewEvents[k].ev # "Started"
    /\ \A k \in 1..Len(parser.events) : ~IsPseudoName(parser.events[k].name)
    /\ parser.current_test # <<>> => ~IsPseudoName(parser.current_test[1])

\* a pseudo-test line has been consumed while a test was current: it
\* reported the test's outcome and left no test current
C31_Witness ==
    /\ next_line > 2
    /\ input[next_line - 1] = 4
    /\ input[next_line - 2] = 1
    /\ parser.current_test = <<>>
    /\ Len(SelectSeq(parser.events, IsTerminalEvent)) >= 1

\* ------------------------------------------------------------------------
\* Output parser: the output of a failed test
\* ------------------------------------------------------------------------

\* the consumed line that emitted the j-th event
EventLine(j) ==
    CHOOSE k \in 1..(next_line - 1) :
        Len(Before(k).events) < j /\ j <= Len(After(k).events)

\* the Started event the j-th event belongs to: the last one before it
StartedBefore(j) ==
    CHOOSE i \in 1..(j - 1) :
        /\ parser.events[i].ev = "Started"
        /\ \A m \in (i + 1)..(j - 1) : parser.events[m].ev # "Started"

\* the line has the shape of a progress line, error tag or not
IsProgressShape(raw) ==
    LET split == SplitOnce(Trim(StripPrefixOr(Trim(raw), FlutterPrefix)), " ")
    IN split # <<>> /\ IsProgressRest(split[2])

\* the line is neither noise, a continuation request nor a progress line
IsPlainOutput(raw) ==
    /\ ~IsNoise(Trim(raw))
    /\ identify_continue_request(Trim(raw)) = <<>>
    /\ ~IsProgressShape(raw)

\* the text after the line's first blank carries the error tag
HasErrorTag(raw) ==
    LET split == SplitOnce(Trim(StripPrefixOr(Trim(raw), FlutterPrefix)), " ")
    IN split # <<>> /\ Contains(split[2], ErrorTag)

\* a line as the accumulated output holds it: trimmed, without the prefix
\* of forwarded logs
OutputText(raw) == Trim(StripPrefixOr(Trim(raw), FlutterPrefix))

\* the lines strictly between two consumed lines that satisfy Keep, in
\* order, as the accumulated output holds them
LinesBetween(from, to, Keep(_)) ==
    LET idxs == [k \in 1..(to - from - 1) |-> from + k]
        kept == SelectSeq(idxs, LAMBDA k : Keep(LineTable[input[k]]))
    IN [k \in 1..Len(kept) |-> OutputText(LineTable[input[kept[k]]])]

\* every Failed event carries the lines between the line that started its
\* test and the line that reported the failure that satisfy Keep
FailedOutputIs(Keep(_)) ==
    \A j \in 1..Len(parser.events) :
        parser.events[j].ev = "Failed" =>
            /\ j > 1
            /\ parser.events[StartedBefore(j)].name = parser.events[j].name
            /\ parser.events[j].output =
                  LinesBetween(EventLine(StartedBefore(j)), EventLine(j), Keep)

\* C32: the output of a Failed event for test T is exactly the lines, in
\* order, that arrived after the line that started T and before the
\* progress line that reported the failure and that were neither noise,
\* continuation requests nor progress lines; no other line appears in it.
C32_FailedOutputIsTestOutput ==
    ppc = "done" => FailedOutputIs(IsPlainOutput)

IsCollected(raw) == IsPlainOutput(raw) /\ ~HasErrorTag(raw)

\* the output of a Failed event is those lines without the ones whose text
\* after the first blank carries the error tag
FailedOutputWithoutTagged ==
    ppc = "done" => FailedOutputIs(IsCollected)

\* ------------------------------------------------------------------------
\* Output parser: order of the events
\* ------------------------------------------------------------------------

IsPassedEvent(e) == e.ev = "Passed"
IsFailedEvent(e) == e.ev = "Failed"
IsStartedEvent(e) == e.ev = "Started"

\* the name of the last Started event, <<>> when there is none
LastStarted(evs) ==
    LET st == SelectSeq(evs, IsStartedEvent)
    IN IF st = <<>> THEN <<>> ELSE <<st[Len(st)].name>>

\* C33: events are emitted in the order of the lines that cause them: a
\* step only appends to the event sequence, and only while it consumes one
\* line; at the end of every stream the event sequence is the one its
\* lines determine, whatever the input bridge did; and nothing is held
\* back: every pass and every failure counted so far has its event, and
\* the current test is the one last started.
C33_EventsFollowLines ==
    /\ [][ /\ IsPrefix(parser.events, parser'.events)
           /\ parser'.events # parser.events => next_line' = next_line + 1
         ]_vars
    /\ [](/\ ppc = "done" =>
                parser.events = ParseAll(ParserStart, TextOf(input)).events
          /\ Len(SelectSeq(parser.events, IsPassedEvent)) = parser.passed
          /\ Len(SelectSeq(parser.events, IsFailedEvent)) = parser.failed
          /\ parser.current_test # <<>> =>
                parser.current_test = LastStarted(parser.events))

\* one line has emitted a Failed, a Passed and a Started event, and the
\* next line has not been read
C33_Witness ==
    /\ ppc = "reading"
    /\ next_line = 3
    /\ next_line <= Len(input)
    /\ EventNames(parser.events) =
          << <<"Started", <<"A">> >>, <<"Failed", <<"A">> >>,
             <<"Passed", <<"A">> >>, <<"Started", <<"C">> >> >>

\* ------------------------------------------------------------------------
\* Output parser: terminal events and accounting
\* ------------------------------------------------------------------------

\* the names of the events that satisfy Kind
NamesOf(evs, Kind(_)) ==
    {evs[k].name : k \in {i \in 1..Len(evs) : Kind(evs[i])}}

\* C34: each started test receives at most one terminal event: no test
\* name has both a Passed and a Failed event, and there are never more
\* Passed and Failed events together than Started events.
C34_AtMostOneTerminalEvent ==
    /\ NamesOf(parser.events, IsPassedEvent)
          \cap NamesOf(parser.events, IsFailedEvent) = {}
    /\ Len(SelectSeq(parser.events, IsTerminalEvent))
          <= Len(SelectSeq(parser.events, IsStartedEvent))

\* a test never has more than one Passed and never more than one Failed
\* event, and every terminal event follows the start of its test
TerminalEventsOfStartedTests ==
    \A j \in 1..Len(parser.events) :
        IsTerminalEvent(parser.events[j]) =>
            /\ \E i \in 1..(j - 1) :
                  parser.events[i] = Started(parser.events[j].name)
            /\ \A i \in 1..(j - 1) :
                  parser.events[i].ev = parser.events[j].ev
                     => parser.events[i].name # parser.events[j].name

\* the progress lines of the input, as positions
ProgressPositions == {k \in 1..Len(input) : IsProgressText(LineTable[input[k]])}

\* the counters of the progress line at position k
CountersAt(k) == CountersOf(LineTable[input[k]])

\* the first progress line reports no outcome, and from one progress line
\* to the next no counter goes down and the two together go up by at most
\* one
CountersWellBehaved ==
    \A k \in ProgressPositions :
        LET earlier == {j \in ProgressPositions : j < k}
        IN IF earlier = {}
           THEN CountersAt(k).P = 0 /\ CountersAt(k).F = 0
           ELSE LET prev == CountersAt(CHOOSE j \in earlier :
                                           \A m \in earlier : m <= j)
                IN /\ CountersAt(k).P >= prev.P
                   /\ CountersAt(k).F >= prev.F
                   /\ (CountersAt(k).P - prev.P) + (CountersAt(k).F - prev.F) <= 1

\* C35: for a line sequence whose progress counters never go down and grow
\* by at most one per progress line, the passed and failed counters at
\* stream end are the P and F of the last progress line of the stream.
C35_CountersAgreeWithDriver ==
    (ppc = "done" /\ ProgressPositions # {} /\ CountersWellBehaved) =>
        LET last == CHOOSE k \in ProgressPositions :
                        \A m \in ProgressPositions : m <= k
        IN /\ parser.passed = CountersAt(last).P
           /\ parser.failed = CountersAt(last).F

\* ------------------------------------------------------------------------
\* Hook pipeline: the result of execute and the feature-load failure
\* ------------------------------------------------------------------------

IsPostHookError(e) == e.kind = "Post-hook"

FinishedLeavesResult ==
    /\ [][(pc \in {"post", "term2", "ret"}) => (res' = res)]_vars
    /\ []((pc \in {"ret", "done"} /\ res # "err_load"
              /\ \E i \in FailedSet : TypeOf(i) = "Finished")
            => SelectSeq(results_error, IsPostHookError) # <<>>)

IsLoadError(e) == e.kind = "load"

\* loading the feature tests has failed
LoadFailed == SelectSeq(results_error, IsLoadError) # <<>>

\* the Finished hooks with continue_on_error = true, in list order
TolerantFinished ==
    SelectSeq(hooks_of_type("Finished"), LAMBDA h : Tolerant(h))

\* C40: after a failed load of the feature tests no pre-phase hook and no
\* test step is executed; the Finished phase runs once with has_error =
\* true: only hooks with continue_on_error = true run, in list order, each
\* at most once, up to the end of the list or to the first that fails; the
\* load error is the first entry of Results.error and the only one of its
\* kind; and execute returns an error.
C40_LoadFailureRunsFinishedOnly ==
    LoadFailed =>
        /\ SelectSeq(trace, IsTestsRun) = <<>>
        /\ IsPrefix(executed, TolerantFinished)
        /\ IsLoadError(results_error[1])
        /\ Len(SelectSeq(results_error, IsLoadError)) = 1
        /\ res = "err_load"
        /\ WorkerMessage(res) = "error"
        /\ pc \in {"ret", "done"} =>
              \/ executed = TolerantFinished
              \/ FailedRuns # <<>>

\* the load failed, execute has returned, a tolerant Finished hook ran and
\* a pre-phase hook and a Finished hook without continue_on_error did not
C40_Witness ==
    /\ LoadFailed
    /\ pc = "done"
    /\ Len(executed) >= 1
    /\ \E i, j \in HookIds \ ExecutedSet :
          /\ TypeOf(i) # "Finished"
          /\ TypeOf(j) = "Finished"
          /\ ~Tolerant(j)

\* ------------------------------------------------------------------------
\* Local streaming run: properties
\* ------------------------------------------------------------------------

\* process_output has not returned
LocalRunning == lpc \in {"lines", "wait"}

\* C37: a local streaming run cannot deadlock: whatever the child writes to
\* its stdout and stderr pipes, and in whatever order, as long as
\* process_output has not returned the child or the parent can take a step.
C37_LocalStreamNeverBlocks ==
    LocalRunning => ENABLED LocalNext

\* the number of writes to stderr in the child's plan
StderrWrites == Cardinality({k \in 1..Len(child_plan) : child_plan[k] = "err"})

\* a child whose whole stderr output fits into the pipe never blocks the run
StderrWithinPipeNeverBlocks ==
    (LocalRunning /\ StderrWrites <= PipeCapacity) => ENABLED LocalNext

\* ------------------------------------------------------------------------
\* Interactive prompts: properties
\* ------------------------------------------------------------------------

\* the call of ask has returned after waiting for the user
AskReturned(k) == asks[k].state \in {"answered", "timeout"}

\* C38: a prompt that the user answers within its window sends the typed
\* line, trimmed, as the value of its continuation command, also when an
\* earlier prompt timed out.
C38_AnswerReachesItsPrompt ==
    \A k \in 1..Len(asks) :
        (AskReturned(k) /\ asks[k].typed # <<>>)
            => PayloadOf(dbus_cmds[k]) = Trim(asks[k].typed[1])

\* every prompt that has returned has sent one command, and the first
\* prompt, before which no reader thread exists, sends the line typed at it
FirstPromptGetsItsAnswer ==
    /\ Len(dbus_cmds) = Len(SelectSeq(asks, LAMBDA a : a.state # "waiting"))
    /\ (asks # <<>> /\ AskReturned(1) /\ asks[1].typed # <<>>)
          => PayloadOf(dbus_cmds[1]) = Trim(asks[1].typed[1])

\* a prompt timed out and left its reader thread inside read_line, the
\* line typed at the next prompt went to that thread, and the next prompt
\* sent the empty value
AnswerTakenByLeftoverReader ==
    /\ Len(asks) >= 2
    /\ asks[1].state = "timeout"
    /\ asks[1].thread = "done"
    /\ asks[2].state = "timeout"
    /\ asks[2].typed # <<>>
    /\ asks[2].thread = "reading"
    /\ stdin_buf = <<>>
    /\ PayloadOf(dbus_cmds[2]) = <<>>

\* ------------------------------------------------------------------------
\* Remote line stream: end of the iterator
\* ------------------------------------------------------------------------

\* C39: the remote line iterator ends if and only if the reader thread has
\* finished: it returns end-of-stream only when the thread has ended, the
\* channel is empty and every line the thread sent has been yielded, in
\* order; and once the thread has left its read loop, by EOF or by a read
\* error, a caller that keeps the iterator eventually gets end-of-stream.
C39_IteratorEndsWithReader ==
    /\ [](ended =>
             /\ rpc = "closed"
             /\ tx = <<>>
             /\ buffer = <<>>
             /\ refused = <<>>
             /\ lines_out = SelectSeq(Segments(Delivered), from_utf8_ok))
    /\ (rpc \in {"flush", "closed"}) ~> (ended \/ rx_dropped)

\* the iterator has ended after a read error, behind a line and a remainder
C39_Witness ==
    /\ ended
    /\ ~rx_dropped
    /\ read_pos < Len(bytes)
    /\ Len(lines_out) = 2

====
